---- MODULE Spec2Model ----
(***************************************************************************)
(* Sunburn Monitor firmware (src/unnamed/part_000): the device controller  *)
(* as a state machine.  setup() and loop() run on one thread; the watchdog *)
(* interrupt WDT_vect and the pin-2 interrupt pin2_isr run asynchronously. *)
(*                                                                         *)
(* Units: times are milliseconds; minutesToBurn and UV readings are in     *)
(* hundredths (the sensor returns the UV index x 100 and doMeasure divides *)
(* by 100.0), so the float arithmetic of the firmware is exact integer     *)
(* arithmetic here.  wdtSleepCount is a byte and wraps at 256.             *)
(***************************************************************************)
EXTENDS Integers, Sequences, FiniteSets, TLC

----------------------------------------------------------------------------
(* Program constants (#define lines of the source). *)

EE_CHECKBYTE_1 == 125
EE_CHECKBYTE_2 == 126
EE_SKIN_TYPE == 127

STATE_POWER_OFF == 0
STATE_CONFIG == 1
STATE_RUNNING == 2
STATE_COMPLETED == 4

SET_TIMEOUT == 30000
MAX_ALARM_TIME == 15000
ALARM_PAUSE_TIME == 500
MAX_RUNNING_TIME == 720
MIN_BATT_VOLTS == 270
LONG_CLICK_MS == 1000

\* the two checkbyte values setup() tests for and writes (0xBA, 0xDA)
CHECK_VALUE_1 == 186
CHECK_VALUE_2 == 218

\* the literal loop() compares wdtSleepCount with
WDT_MINUTE_COUNT == 15
\* the watchdog period enable_watchdog() programs (WDP3: 4.0 seconds)
WDT_PERIOD_MS == 4000

\* playAlarm's sweep: freq = 500, 510, ..., 3000 with delay(1) per step
ALARM_FREQ_FIRST == 500
ALARM_FREQ_LAST == 3000
ALARM_FREQ_STEP == 10

LOW == "LOW"
HIGH == "HIGH"

\* static uint16_t skinTypeMinutesPerUVI[6]; C index i is element i + 1
skinTypeMinutesPerUVI == <<0, 67, 100, 200, 400, 500>>
\* static uint8_t pressesPerSPF[6]
pressesPerSPF == <<0, 1, 10, 15, 30, 45>>
\* the skin type table of the header comment (types I..VI)
HeaderMinutesPerUVI == <<67, 100, 200, 300, 400, 500>>

----------------------------------------------------------------------------
(* Bounds of the model. *)

\* the non-zero raw UV reading (UV index x 100) the sensor can return
UvHigh == 33500
\* a supply voltage reading above the low-battery threshold
VccGood == 300
\* ADCSRA as the Arduino core leaves it before setup() (ADEN, prescaler 128)
AdcAfterInit == 135
\* how much time can pass in one idle stretch of the config loop
CfgStepMs == 10000
\* short presses of set and presses of skin per config session, whole device
MaxSetShortDevice == 1
MaxSkinDevice == 1
\* the same, when doConfig is checked on its own
MaxSetShortConfig == 7
MaxSkinConfig == 8
\* watchdog periods a hold of the power button can last
MaxHoldTicks == 2

UvReadings == {0, UvHigh}
VccReadings == {MIN_BATT_VOLTS - 1, MIN_BATT_VOLTS, VccGood}
\* how long the power button, pressed while the processor was halted, had been
\* down when the watchdog woke it: no time, or a long click's worth
SleepHoldTimes == {0, LONG_CLICK_MS}
\* how long a button is held before it is released
HoldDurations ==
  {0, LONG_CLICK_MS - 1, LONG_CLICK_MS} \cup {k * WDT_PERIOD_MS : k \in 1..MaxHoldTicks}
\* idle stretches of the config loop
CfgSteps == {CfgStepMs, SET_TIMEOUT - 1}
\* what a read one element past a 6-element table can return
OobWords == {0, 300, 65535}
OobBytes == {0, 60, 255}
\* the persistent store before the first instruction runs: erased, or as a
\* previous boot and session left it
BlankStore == [a \in {EE_CHECKBYTE_1, EE_CHECKBYTE_2, EE_SKIN_TYPE} |-> 255]
SeededStore(s) ==
  [a \in {EE_CHECKBYTE_1, EE_CHECKBYTE_2, EE_SKIN_TYPE} |->
     IF a = EE_CHECKBYTE_1 THEN CHECK_VALUE_1
     ELSE IF a = EE_CHECKBYTE_2 THEN CHECK_VALUE_2 ELSE s]
InitStores == {BlankStore, SeededStore(1)}
\* the stores a device that is power cycled can start from: erased, one
\* checkbyte only, seeded, and seeded with another skin type
CycleStores ==
  {BlankStore, [BlankStore EXCEPT ![EE_CHECKBYTE_1] = CHECK_VALUE_1],
   SeededStore(1), SeededStore(4)}

----------------------------------------------------------------------------
VARIABLES
  state,              \* volatile byte state
  pc,                 \* where the main thread is
  runningTimer,       \* uint16_t runningTimer
  wdtSleepCount,      \* volatile byte wdtSleepCount
  skinType,           \* uint8_t skinType
  minutesToBurn,      \* float minutesToBurn, in hundredths
  eeprom,             \* the three EEPROM cells the firmware uses
  spfIndex,           \* doConfig local
  tempSkinType,       \* doConfig local
  skinTypeNotPressed, \* doConfig local
  sinceSet,           \* millis() - setTimer, saturating at SET_TIMEOUT
  sincePress,         \* time since the last press or release of set or press of skin
  sinceEdge,          \* time since the last edge on any control
  setShorts,          \* short presses of set seen in this config session
  skinPresses,        \* presses of skin seen in this config session
  wdtEnabled,         \* WDIE: the watchdog interrupt is on
  int0Attached,       \* pin2_isr is attached to INT0
  sensorOn,           \* UV_SENSOR_PWR_PIN is LOW (sensor powered)
  ADCSRA,             \* ADC control register
  adcSettings,        \* static uint8_t adcSettings
  onOffPin, skinPin, setPin,           \* the pins' levels
  onOffButton, skinButton, setButton,  \* the Bounce objects' debounced states
  downBeforeSeen,     \* how long the power button had been down when loop() woke
  heldTicks,          \* watchdog periods elapsed inside the current hold loop
  alarmElapsed,       \* millis() - alarmTimer inside playAlarm, saturating
  pressedOnOff,       \* playAlarm local
  effects             \* what the last step did to the outside world

vars ==
  <<state, pc, runningTimer, wdtSleepCount, skinType, minutesToBurn, eeprom,
    spfIndex, tempSkinType, skinTypeNotPressed, sinceSet, sincePress, sinceEdge,
    setShorts, skinPresses, wdtEnabled, int0Attached, sensorOn, ADCSRA, adcSettings,
    onOffPin, skinPin, setPin, onOffButton, skinButton, setButton, downBeforeSeen,
    heldTicks, alarmElapsed, pressedOnOff, effects>>

configLocals ==
  <<spfIndex, tempSkinType, skinTypeNotPressed, sinceSet, sincePress, sinceEdge,
    setShorts, skinPresses>>
alarmLocals == <<alarmElapsed, pressedOnOff>>
buttons ==
  <<onOffPin, skinPin, setPin, onOffButton, skinButton, setButton, downBeforeSeen>>
interrupts == <<wdtEnabled, int0Attached>>
adc == <<ADCSRA, adcSettings>>

Min(a, b) == IF a < b THEN a ELSE b

----------------------------------------------------------------------------
(* Pure parts of the firmware. *)

\* skinTypeMinutesPerUVI[i]; past the end of the table the read returns junk
SkinMinutesAt(i, junk) ==
  IF i < Len(skinTypeMinutesPerUVI) THEN skinTypeMinutesPerUVI[i + 1] ELSE junk

\* pressesPerSPF[i]; past the end of the table the read returns junk
SpfAt(i, junk) ==
  IF i < Len(pressesPerSPF) THEN pressesPerSPF[i + 1] ELSE junk

\* calculateTimeToBurn: uint16_t * uint16_t, stored in the float (x 100 here)
TimeToBurn(skin, index, junkWord, junkByte) ==
  ((SkinMinutesAt(skin, junkWord) * SpfAt(index, junkByte)) % 65536) * 100

\* the junk a table read can see: only when the index is past the end
WordJunk(i) == IF i < Len(skinTypeMinutesPerUVI) THEN {0} ELSE OobWords
ByteJunk(i) == IF i < Len(pressesPerSPF) THEN {0} ELSE OobBytes

\* doConfig, short press of set: the next spfIndex
NextSpfIndex(i) == IF i < 6 THEN i + 1 ELSE 1

\* doConfig, press of skin: the next tempSkinType
MutNextSkinType(temp, notPressed) == IF temp < 6 THEN temp + 1 ELSE 1
NextSkinType(temp, notPressed) ==
  LET t == IF notPressed = 1 THEN 0 ELSE temp
  IN  IF t < 6 THEN t + 1 ELSE 1

\* doMeasure: minutesToBurn - (1 * UVindex)
MutConsume(budget, uv) == IF budget - uv < 0 THEN 0 ELSE budget - uv
Consume(budget, uv) == budget - uv

\* float minutesToBurn, float UVindex: IEEE single precision, 24 significant
\* bits, round to nearest.  A float of magnitude below 256 is an integer
\* number of F32Scale-ths; one of magnitude 2^e .. 2^(e+1) is a multiple of
\* its unit in the last place, 2^e of them.
F32Scale == 2^23

Abs(x) == IF x < 0 THEN 0 - x ELSE x

RECURSIVE Pow2Below(_)
\* the largest power of two that is <= n, for n >= 1
Pow2Below(n) == IF n < 2 THEN 1 ELSE 2 * Pow2Below(n \div 2)

\* the unit in the last place of the float nearest to x F32Scale-ths
F32Ulp(x) ==
  IF Abs(x) < 2 * F32Scale THEN 1 ELSE Pow2Below(Abs(x) \div F32Scale)

\* the multiple of g nearest to n / d, ties to the even multiple (n >= 0)
RoundToGrid(n, d, g) ==
  LET m == n \div (d * g)
      rem == n - m * d * g
  IN  IF 2 * rem < d * g THEN m * g
      ELSE IF 2 * rem > d * g THEN (m + 1) * g
      ELSE IF m % 2 = 0 THEN m * g ELSE (m + 1) * g

\* the float nearest to x F32Scale-ths
MutRoundF32(x) == RoundToGrid(Abs(x), 1, 8 * F32Ulp(x))
RoundF32(x) ==
  LET r == RoundToGrid(Abs(x), 1, F32Ulp(x))
  IN  IF x < 0 THEN 0 - r ELSE r

\* doMeasure: float UVindex = uv.readUV(); UVindex /= 100.0, for a reading
\* of 100 .. 1023: the float nearest to raw / 100
UVindexF32(raw) == RoundToGrid(raw * (F32Scale \div 4), 25, Pow2Below(raw \div 100))

\* doMeasure: minutesToBurn = minutesToBurn - (1 * UVindex) in float
ConsumeF32(budget, raw) == RoundF32(budget - UVindexF32(raw))

\* the minute branch's test for the session ceiling
MutCeilingReached(t) == t > MAX_RUNNING_TIME
CeilingReached(t) == t = MAX_RUNNING_TIME

\* the minute branch's test for completion
MutOutOfTime(budget) == TRUE
OutOfTime(budget) == budget <= 0

\* doConfig, press of skin: setTimer = millis()
MutSetTimerAfterSkin(seen, since) == since
SetTimerAfterSkin(seen, since) == IF seen THEN 0 ELSE since

\* doConfig, set found pressed: setTimer = millis()
MutSetTimerAfterSet(since) == since
SetTimerAfterSet(since) == 0

\* the state loop() sets after sleepNow() returns in case STATE_POWER_OFF
MutWakeState == STATE_RUNNING
WakeState == STATE_CONFIG

\* the state setup() leaves for loop(): state = STATE_POWER_OFF
BootState == STATE_POWER_OFF

\* doConfig's initialiser of its local spfIndex, whatever the last call left
MutSpfIndexAtEntry(previous) == previous
SpfIndexAtEntry(previous) == 1

\* doConfig's while condition: (millis() - setTimer) < SET_TIMEOUT
MutSetTimeLeft(since) == TRUE
SetTimeLeft(since) == since < SET_TIMEOUT

\* loop(), case STATE_RUNNING: if (vccVoltage <= MIN_BATT_VOLTS)
MutBatteryLow(vcc) == vcc < MIN_BATT_VOLTS
BatteryLow(vcc) == vcc <= MIN_BATT_VOLTS

\* doMeasure: the sensor supply after digitalWrite(UV_SENSOR_PWR_PIN, HIGH)
MutSensorAfterMeasure == TRUE
SensorAfterMeasure == FALSE

\* ISR(WDT_vect): wdtSleepCount++ on a volatile byte
MutTickCount(cnt) == cnt
TickCount(cnt) == (cnt + 1) % 256

\* loop(), case STATE_POWER_OFF: the watchdog interrupt after disable_watchdog()
MutPowerOffWatchdog(enabled) == enabled
PowerOffWatchdog(enabled) == FALSE

\* loop(), case STATE_RUNNING: if (wdtSleepCount == 15)
MutMinuteReached(cnt) == cnt = WDT_MINUTE_COUNT + 1
MinuteReached(cnt) == cnt = WDT_MINUTE_COUNT

\* loop(), case STATE_RUNNING, minute branch: runningTimer++
MutNextRunningTimer(t) == t
NextRunningTimer(t) == t + 1

\* the state loop() sets after playAlarm() returns
MutAlarmDoneState == STATE_CONFIG
AlarmDoneState == STATE_POWER_OFF

\* where setup() is after the error tone of a failed uv.begin(): in while (1)
MutAfterSensorFailure == "loop"
AfterSensorFailure == "halted"

\* the press classification after doConfig's hold loop for set
MutLongAfterThreshold(d) == d <= LONG_CLICK_MS
IsShortPress(d) == d < LONG_CLICK_MS

\* the press classification after the hold loops for the power button in
\* case STATE_RUNNING
MutNoLongPress(d) == TRUE
MutLongClickAboveTick(d) == d <= WDT_PERIOD_MS
IsShortPowerPress(d) == d < LONG_CLICK_MS

\* playAlarm's while condition: (millis() - alarmTimer) < MAX_ALARM_TIME
MutAlarmTimeLeft(elapsed) == TRUE
AlarmTimeLeft(elapsed) == elapsed < MAX_ALARM_TIME

\* playAlarm's test after the pause: if (pressedOnOff) return
MutAlarmStops(pressed) == FALSE
AlarmStops(pressed) == pressed = 1

\* one pass of playAlarm's for loop runs to the end in this many milliseconds
SweepMs == ((ALARM_FREQ_LAST - ALARM_FREQ_FIRST) \div ALARM_FREQ_STEP) + 1

----------------------------------------------------------------------------
(* Initial state: the globals' initialisers, before setup(). *)

Init ==
  /\ state = STATE_CONFIG
  /\ pc = "setup"
  /\ runningTimer = 0
  /\ wdtSleepCount = 0
  /\ skinType = 0
  /\ minutesToBurn = 0
  /\ eeprom \in InitStores
  /\ spfIndex = 0 /\ tempSkinType = 0 /\ skinTypeNotPressed = 0
  /\ sinceSet = 0 /\ sincePress = 0 /\ sinceEdge = 0
  /\ setShorts = 0 /\ skinPresses = 0
  /\ wdtEnabled = FALSE
  /\ int0Attached = FALSE
  /\ sensorOn = FALSE
  /\ ADCSRA = AdcAfterInit
  /\ adcSettings = 0
  /\ onOffPin = HIGH /\ skinPin = HIGH /\ setPin = HIGH
  /\ onOffButton = HIGH /\ skinButton = HIGH /\ setButton = HIGH
  /\ downBeforeSeen = 0
  /\ heldTicks = 0
  /\ alarmElapsed = 0 /\ pressedOnOff = 0
  /\ effects = {}

----------------------------------------------------------------------------
(* setup() *)

\* the EEPROM after setup()'s checkbyte test
SetupStore(e) ==
  IF e[EE_CHECKBYTE_1] = CHECK_VALUE_1 /\ e[EE_CHECKBYTE_2] = CHECK_VALUE_2
  THEN e
  ELSE SeededStore(1)

\* skinType after setup()'s checkbyte test: read from the store only when the
\* checkbytes match; the else branch writes the store and leaves the global alone
SetupSkinType(e, current) ==
  IF e[EE_CHECKBYTE_1] = CHECK_VALUE_1 /\ e[EE_CHECKBYTE_2] = CHECK_VALUE_2
  THEN e[EE_SKIN_TYPE]
  ELSE current

SetupWrites(e) ==
  IF e[EE_CHECKBYTE_1] = CHECK_VALUE_1 /\ e[EE_CHECKBYTE_2] = CHECK_VALUE_2
  THEN {}
  ELSE {"ee125", "ee126", "ee127"}

\* setup() when uv.begin() fails: error tone, then while (1)
SetupSensorFails ==
  /\ pc = "setup"
  /\ pc' = AfterSensorFailure
  /\ eeprom' = SetupStore(eeprom)
  /\ skinType' = SetupSkinType(eeprom, skinType)
  /\ sensorOn' = TRUE
  /\ wdtEnabled' = FALSE
  /\ effects' = SetupWrites(eeprom) \cup {"error"}
  /\ UNCHANGED <<state, runningTimer, wdtSleepCount, minutesToBurn, configLocals,
                 int0Attached, adc, buttons, heldTicks, alarmLocals>>

\* setup() when the sensor answers: measure, read the voltage, startup tone,
\* sensor off, state = STATE_POWER_OFF
Setup ==
  /\ pc = "setup"
  /\ \E uv \in UvReadings : minutesToBurn' = Consume(minutesToBurn, uv)
  /\ eeprom' = SetupStore(eeprom)
  /\ skinType' = SetupSkinType(eeprom, skinType)
  /\ sensorOn' = FALSE
  /\ wdtEnabled' = FALSE
  /\ state' = BootState
  /\ pc' = "loop"
  /\ effects' = SetupWrites(eeprom) \cup {"uv", "vcc", "startup"}
  /\ UNCHANGED <<runningTimer, wdtSleepCount, configLocals, int0Attached, adc, buttons,
                 heldTicks, alarmLocals>>

----------------------------------------------------------------------------
(* sleepNow(): the part before the processor halts, and the part after *)

SleepEntry ==
  /\ adcSettings' = ADCSRA
  /\ ADCSRA' = 0

MutSleepReturn == UNCHANGED <<ADCSRA, adcSettings>>
SleepReturn ==
  /\ ADCSRA' = adcSettings
  /\ UNCHANGED adcSettings

----------------------------------------------------------------------------
(* doConfig() *)

\* doConfig's locals do not exist outside the call
DropConfigLocals ==
  /\ spfIndex' = 0 /\ tempSkinType' = 0 /\ skinTypeNotPressed' = 0
  /\ sinceSet' = 0 /\ sincePress' = 0 /\ sinceEdge' = 0
  /\ setShorts' = 0 /\ skinPresses' = 0

\* loop(), case STATE_CONFIG: doConfig() up to the first test of its while loop
DoConfig ==
  /\ pc = "loop" /\ state = STATE_CONFIG
  /\ runningTimer' = 0
  /\ wdtSleepCount' = 0
  /\ spfIndex' = SpfIndexAtEntry(spfIndex)
  /\ skinTypeNotPressed' = 1
  /\ tempSkinType' = skinType
  /\ sinceSet' = 0 /\ sincePress' = 0 /\ sinceEdge' = 0
  /\ setShorts' = 0 /\ skinPresses' = 0
  /\ pc' = "cfg"
  /\ effects' = {"startup"}
  /\ UNCHANGED <<state, skinType, minutesToBurn, eeprom, interrupts, sensorOn, adc,
                 buttons, heldTicks, alarmLocals>>

\* the skin button test at the end of one pass of the while loop
SkinSeen == skinPin # skinButton /\ skinPin = LOW

SkinPoll ==
  /\ skinButton' = skinPin
  /\ IF SkinSeen
       THEN /\ tempSkinType' = NextSkinType(tempSkinType, skinTypeNotPressed)
            /\ skinTypeNotPressed' = 0
       ELSE UNCHANGED <<tempSkinType, skinTypeNotPressed>>

\* one pass of the while loop in which set is not found pressed
CfgPass ==
  /\ pc = "cfg" /\ SetTimeLeft(sinceSet)
  /\ ~(setPin # setButton /\ setPin = LOW)
  /\ setButton' = setPin
  /\ SkinPoll
  /\ sinceSet' = SetTimerAfterSkin(SkinSeen, sinceSet)
  /\ effects' = IF SkinSeen THEN {"tone"} ELSE {}
  /\ UNCHANGED <<state, pc, runningTimer, wdtSleepCount, skinType, minutesToBurn, eeprom,
                 spfIndex, sincePress, sinceEdge, setShorts, skinPresses, interrupts,
                 sensorOn, adc, onOffPin, downBeforeSeen, skinPin, setPin, onOffButton,
                 heldTicks, alarmLocals>>

\* a pass of the while loop that finds set pressed: reset setTimer, enter the
\* hold loop
CfgSetPressed ==
  /\ pc = "cfg" /\ SetTimeLeft(sinceSet)
  /\ setPin # setButton /\ setPin = LOW
  /\ setButton' = setPin
  /\ sinceSet' = SetTimerAfterSet(sinceSet)
  /\ pc' = "cfg_hold"
  /\ effects' = {}
  /\ UNCHANGED <<state, runningTimer, wdtSleepCount, skinType, minutesToBurn, eeprom,
                 spfIndex, tempSkinType, skinTypeNotPressed, sincePress, sinceEdge,
                 setShorts, skinPresses, interrupts, sensorOn, adc, onOffPin,
                 downBeforeSeen, skinPin, setPin, onOffButton, skinButton, heldTicks,
                 alarmLocals>>

\* set is released after a short hold: step spfIndex, then the skin test of
\* the same pass
CfgSetShort(d, maxShort) ==
  /\ pc = "cfg_hold"
  /\ IsShortPress(d)
  /\ setShorts < maxShort
  /\ setPin' = HIGH /\ setButton' = HIGH
  /\ spfIndex' = NextSpfIndex(spfIndex)
  /\ setShorts' = setShorts + 1
  /\ SkinPoll
  /\ sinceSet' = 0 /\ sincePress' = 0 /\ sinceEdge' = 0
  /\ pc' = "cfg"
  /\ effects' = {"tone"}
  /\ UNCHANGED <<state, runningTimer, wdtSleepCount, skinType, minutesToBurn, eeprom,
                 skinPresses, interrupts, sensorOn, adc, onOffPin, downBeforeSeen,
                 skinPin, onOffButton, heldTicks, alarmLocals>>

\* set is released after a long hold: commit.  doConfig returns with state
\* STATE_RUNNING, and loop() enables the watchdog again and calls sleepNow()
CfgCommit(d) ==
  /\ pc = "cfg_hold"
  /\ ~IsShortPress(d)
  /\ setPin' = HIGH /\ setButton' = HIGH
  /\ skinType' = tempSkinType
  /\ eeprom' = IF tempSkinType # skinType
                 THEN [eeprom EXCEPT ![EE_SKIN_TYPE] = tempSkinType]
                 ELSE eeprom
  /\ \E jw \in WordJunk(tempSkinType), jb \in ByteJunk(spfIndex) :
       minutesToBurn' = TimeToBurn(tempSkinType, spfIndex, jw, jb)
  /\ state' = STATE_RUNNING
  /\ sensorOn' = FALSE
  /\ wdtEnabled' = TRUE
  /\ SleepEntry
  /\ DropConfigLocals
  /\ pc' = "sleep"
  /\ effects' = (IF tempSkinType # skinType THEN {"ee127"} ELSE {})
                  \cup {"count_spf", "count_skin", "start"}
  /\ UNCHANGED <<runningTimer, wdtSleepCount, int0Attached, onOffPin, downBeforeSeen,
                 skinPin, onOffButton, skinButton, heldTicks, alarmLocals>>

CfgSetReleased(maxShort) ==
  \E d \in HoldDurations : CfgSetShort(d, maxShort) \/ CfgCommit(d)

\* the while condition fails: state = STATE_POWER_OFF, doConfig returns and
\* loop() breaks out of the case
CfgTimeout ==
  /\ pc = "cfg" /\ ~(SetTimeLeft(sinceSet))
  /\ state' = STATE_POWER_OFF
  /\ DropConfigLocals
  /\ pc' = "loop"
  /\ effects' = {}
  /\ UNCHANGED <<runningTimer, wdtSleepCount, skinType, minutesToBurn, eeprom, interrupts,
                 sensorOn, adc, buttons, heldTicks, alarmLocals>>

\* time passes in the while loop with nothing for it to see
CfgIdle ==
  /\ pc = "cfg" /\ SetTimeLeft(sinceSet)
  /\ setPin = setButton /\ skinPin = skinButton
  /\ \E d \in CfgSteps :
       /\ sinceSet' = Min(sinceSet + d, SET_TIMEOUT)
       /\ sincePress' = Min(sincePress + d, SET_TIMEOUT)
       /\ sinceEdge' = Min(sinceEdge + d, SET_TIMEOUT)
  /\ effects' = {}
  /\ UNCHANGED <<state, pc, runningTimer, wdtSleepCount, skinType, minutesToBurn, eeprom,
                 spfIndex, tempSkinType, skinTypeNotPressed, setShorts, skinPresses,
                 interrupts, sensorOn, adc, buttons, heldTicks, alarmLocals>>

\* the user presses set, in time for the while loop to see it
PressSet ==
  /\ pc = "cfg" /\ SetTimeLeft(sinceSet)
  /\ setPin = HIGH /\ setButton = HIGH
  /\ skinPin = HIGH /\ skinButton = HIGH
  /\ setPin' = LOW
  /\ sincePress' = 0 /\ sinceEdge' = 0
  /\ effects' = {}
  /\ UNCHANGED <<state, pc, runningTimer, wdtSleepCount, skinType, minutesToBurn, eeprom,
                 spfIndex, tempSkinType, skinTypeNotPressed, sinceSet, setShorts,
                 skinPresses, interrupts, sensorOn, adc, onOffPin, downBeforeSeen,
                 skinPin, onOffButton, skinButton, setButton, heldTicks, alarmLocals>>

\* the user presses skin
PressSkin(maxSkin) ==
  /\ pc = "cfg" /\ SetTimeLeft(sinceSet)
  /\ skinPresses < maxSkin
  /\ skinPin = HIGH /\ skinButton = HIGH
  /\ setPin = HIGH /\ setButton = HIGH
  /\ skinPin' = LOW
  /\ skinPresses' = skinPresses + 1
  /\ sincePress' = 0 /\ sinceEdge' = 0
  /\ effects' = {}
  /\ UNCHANGED <<state, pc, runningTimer, wdtSleepCount, skinType, minutesToBurn, eeprom,
                 spfIndex, tempSkinType, skinTypeNotPressed, sinceSet, setShorts,
                 interrupts, sensorOn, adc, onOffPin, downBeforeSeen, setPin, onOffButton,
                 skinButton, setButton, heldTicks, alarmLocals>>

\* the user lets go of skin, before the while loop gives up
ReleaseSkin ==
  /\ skinPin = LOW /\ skinButton = LOW
  /\ pc = "cfg" /\ SetTimeLeft(sinceSet)
  /\ skinPin' = HIGH
  /\ sinceEdge' = 0
  /\ effects' = {}
  /\ UNCHANGED <<state, pc, runningTimer, wdtSleepCount, skinType, minutesToBurn, eeprom,
                 spfIndex, tempSkinType, skinTypeNotPressed, sinceSet, sincePress,
                 setShorts, skinPresses, interrupts, sensorOn, adc, onOffPin,
                 downBeforeSeen, setPin, onOffButton, skinButton, setButton, heldTicks,
                 alarmLocals>>

----------------------------------------------------------------------------
(* loop(), case STATE_RUNNING *)

\* the hold durations the watchdog allows: a hold sees one tick for every
\* watchdog period it lasts
HoldOk(d) == heldTicks = (IF wdtEnabled THEN d \div WDT_PERIOD_MS ELSE 0)

\* the rest of the minute branch once the power button test is passed:
\* voltage, tone, doMeasure, completion test, sleepNow.  cnt is wdtSleepCount
\* at this point
SampleOf(cnt, vcc, uv) ==
    LET budget == Consume(minutesToBurn, uv)
        tone == IF BatteryLow(vcc) THEN "lowbatt" ELSE "beep"
    IN  /\ minutesToBurn' = budget
        /\ sensorOn' = SensorAfterMeasure
        /\ effects' = {"vcc", tone, "uv"}
        /\ IF OutOfTime(budget)
             THEN /\ wdtEnabled' = FALSE
                  /\ state' = STATE_COMPLETED
                  /\ wdtSleepCount' = cnt
                  /\ pc' = "loop"
                  /\ UNCHANGED adc
             ELSE /\ wdtSleepCount' = 0
                  /\ SleepEntry
                  /\ pc' = "sleep"
                  /\ UNCHANGED <<state, wdtEnabled>>

Sample(cnt) == \E vcc \in VccReadings, uv \in UvReadings : SampleOf(cnt, vcc, uv)

\* the power button is found pressed by the test at the top of a branch
OnOffSeen == onOffPin # onOffButton /\ onOffPin = LOW

\* wdtSleepCount == 15 and the session ceiling is reached
RunCeiling ==
  /\ pc = "loop" /\ state = STATE_RUNNING
  /\ MinuteReached(wdtSleepCount)
  /\ CeilingReached(NextRunningTimer(runningTimer))
  /\ wdtSleepCount' = 0
  /\ runningTimer' = NextRunningTimer(runningTimer)
  /\ wdtEnabled' = FALSE
  /\ state' = STATE_POWER_OFF
  /\ effects' = {}
  /\ UNCHANGED <<pc, skinType, minutesToBurn, eeprom, configLocals, int0Attached,
                 sensorOn, adc, buttons, heldTicks, alarmLocals>>

\* wdtSleepCount == 15, below the ceiling, power button not pressed: sample
RunMinute ==
  /\ pc = "loop" /\ state = STATE_RUNNING
  /\ MinuteReached(wdtSleepCount)
  /\ ~CeilingReached(NextRunningTimer(runningTimer))
  /\ ~OnOffSeen
  /\ runningTimer' = NextRunningTimer(runningTimer)
  /\ onOffButton' = onOffPin
  /\ Sample(0)
  /\ UNCHANGED <<skinType, eeprom, configLocals, int0Attached, onOffPin, downBeforeSeen,
                 skinPin, setPin, skinButton, setButton, heldTicks, alarmLocals>>

\* wdtSleepCount == 15, below the ceiling, power button pressed: hold loop
RunMinutePressed ==
  /\ pc = "loop" /\ state = STATE_RUNNING
  /\ MinuteReached(wdtSleepCount)
  /\ ~CeilingReached(NextRunningTimer(runningTimer))
  /\ OnOffSeen
  /\ wdtSleepCount' = 0
  /\ runningTimer' = NextRunningTimer(runningTimer)
  /\ onOffButton' = onOffPin
  /\ pc' = "run_hold_min"
  /\ effects' = {}
  /\ UNCHANGED <<state, skinType, minutesToBurn, eeprom, configLocals, interrupts,
                 sensorOn, adc, onOffPin, downBeforeSeen, skinPin, setPin, skinButton,
                 setButton, heldTicks, alarmLocals>>

\* the power button is released in the minute branch's hold loop after d
\* milliseconds
RunMinuteHeld(d) ==
  /\ pc = "run_hold_min"
  /\ HoldOk(d)
  /\ onOffPin' = HIGH /\ onOffButton' = HIGH
  /\ downBeforeSeen' = 0
  /\ heldTicks' = 0
  /\ IF IsShortPowerPress(d)
       THEN Sample(wdtSleepCount)
       ELSE /\ wdtEnabled' = FALSE
            /\ state' = STATE_POWER_OFF
            /\ pc' = "loop"
            /\ effects' = {}
            /\ UNCHANGED <<wdtSleepCount, minutesToBurn, sensorOn, adc>>
  /\ UNCHANGED <<runningTimer, skinType, eeprom, configLocals, int0Attached, skinPin,
                 setPin, skinButton, setButton, alarmLocals>>

RunMinuteReleased == \E d \in HoldDurations : RunMinuteHeld(d)

\* wdtSleepCount != 15, power button not pressed: back to sleep
RunIdle ==
  /\ pc = "loop" /\ state = STATE_RUNNING
  /\ ~MinuteReached(wdtSleepCount)
  /\ ~OnOffSeen
  /\ onOffButton' = onOffPin
  /\ SleepEntry
  /\ pc' = "sleep"
  /\ effects' = {}
  /\ UNCHANGED <<state, runningTimer, wdtSleepCount, skinType, minutesToBurn, eeprom,
                 configLocals, interrupts, sensorOn, onOffPin, downBeforeSeen, skinPin,
                 setPin, skinButton, setButton, heldTicks, alarmLocals>>

\* wdtSleepCount != 15, power button pressed: hold loop
RunIdlePressed ==
  /\ pc = "loop" /\ state = STATE_RUNNING
  /\ ~MinuteReached(wdtSleepCount)
  /\ OnOffSeen
  /\ onOffButton' = onOffPin
  /\ pc' = "run_hold_idle"
  /\ effects' = {}
  /\ UNCHANGED <<state, runningTimer, wdtSleepCount, skinType, minutesToBurn, eeprom,
                 configLocals, interrupts, sensorOn, adc, onOffPin, downBeforeSeen,
                 skinPin, setPin, skinButton, setButton, heldTicks, alarmLocals>>

\* the power button is released in the other branch's hold loop after d
\* milliseconds; a long press sets STATE_POWER_OFF and leaves the watchdog as
\* it is
RunIdleHeld(d) ==
  /\ pc = "run_hold_idle"
  /\ HoldOk(d)
  /\ onOffPin' = HIGH /\ onOffButton' = HIGH
  /\ downBeforeSeen' = 0
  /\ heldTicks' = 0
  /\ IF IsShortPowerPress(d)
       THEN /\ SleepEntry
            /\ pc' = "sleep"
            /\ UNCHANGED state
       ELSE /\ state' = STATE_POWER_OFF
            /\ pc' = "loop"
            /\ UNCHANGED adc
  /\ effects' = {}
  /\ UNCHANGED <<runningTimer, wdtSleepCount, skinType, minutesToBurn, eeprom,
                 configLocals, interrupts, sensorOn, skinPin, setPin, skinButton,
                 setButton, alarmLocals>>

RunIdleReleased == \E d \in HoldDurations : RunIdleHeld(d)

----------------------------------------------------------------------------
(* ISR(WDT_vect) *)

\* the watchdog fires while the processor is halted in sleepNow(): count, wake,
\* and sleepNow() returns to loop().  A press of the power button made during
\* the halt has waited until now to be polled
WdtWake ==
  /\ pc = "sleep" /\ wdtEnabled
  /\ wdtSleepCount' = TickCount(wdtSleepCount)
  /\ SleepReturn
  /\ pc' = "loop"
  /\ downBeforeSeen' \in (IF OnOffSeen THEN SleepHoldTimes ELSE {0})
  /\ effects' = {}
  /\ UNCHANGED <<state, runningTimer, skinType, minutesToBurn, eeprom, configLocals,
                 interrupts, sensorOn, onOffPin, skinPin, setPin, onOffButton, skinButton,
                 setButton, heldTicks, alarmLocals>>

\* the watchdog fires while the main thread spins in a hold loop
WdtHeld ==
  /\ pc \in {"run_hold_min", "run_hold_idle"} /\ wdtEnabled
  /\ heldTicks < MaxHoldTicks
  /\ heldTicks' = heldTicks + 1
  /\ wdtSleepCount' = TickCount(wdtSleepCount)
  /\ effects' = {}
  /\ UNCHANGED <<state, pc, runningTimer, skinType, minutesToBurn, eeprom, configLocals,
                 interrupts, sensorOn, adc, buttons, alarmLocals>>

----------------------------------------------------------------------------
(* loop(), case STATE_POWER_OFF, and pin2_isr() *)

\* sensor off, timer reset, shutdown tone, watchdog off, attachInterrupt
PowerOffEnter ==
  /\ pc = "loop" /\ state = STATE_POWER_OFF
  /\ sensorOn' = FALSE
  /\ runningTimer' = 0
  /\ wdtEnabled' = PowerOffWatchdog(wdtEnabled)
  /\ int0Attached' = TRUE
  /\ pc' = "off_armed"
  /\ effects' = {"shutdown"}
  /\ UNCHANGED <<state, wdtSleepCount, skinType, minutesToBurn, eeprom, configLocals, adc,
                 buttons, heldTicks, alarmLocals>>

\* sleepNow() halts the processor
PowerOffHalt ==
  /\ pc = "off_armed"
  /\ SleepEntry
  /\ pc' = "off_sleep"
  /\ effects' = {}
  /\ UNCHANGED <<state, runningTimer, wdtSleepCount, skinType, minutesToBurn, eeprom,
                 configLocals, interrupts, sensorOn, buttons, heldTicks, alarmLocals>>

\* the level interrupt fires after attachInterrupt and before the halt
Pin2IsrEarly ==
  /\ pc = "off_armed"
  /\ int0Attached /\ onOffPin = LOW
  /\ int0Attached' = FALSE
  /\ effects' = {}
  /\ UNCHANGED <<state, pc, runningTimer, wdtSleepCount, skinType, minutesToBurn, eeprom,
                 configLocals, wdtEnabled, sensorOn, adc, buttons, heldTicks, alarmLocals>>

\* the level interrupt fires while halted: sleepNow() returns, state =
\* STATE_CONFIG
Pin2IsrWake ==
  /\ pc = "off_sleep"
  /\ int0Attached /\ onOffPin = LOW
  /\ int0Attached' = FALSE
  /\ SleepReturn
  /\ state' = WakeState
  /\ pc' = "loop"
  /\ effects' = {}
  /\ UNCHANGED <<runningTimer, wdtSleepCount, skinType, minutesToBurn, eeprom,
                 configLocals, wdtEnabled, sensorOn, buttons, heldTicks, alarmLocals>>

----------------------------------------------------------------------------
(* loop(), case STATE_COMPLETED, and playAlarm() *)

\* playAlarm() up to the first test of its while loop
PlayAlarm ==
  /\ pc = "loop" /\ state = STATE_COMPLETED
  /\ alarmElapsed' = 0
  /\ pressedOnOff' = 0
  /\ pc' = "alarm"
  /\ effects' = {}
  /\ UNCHANGED <<state, runningTimer, wdtSleepCount, skinType, minutesToBurn, eeprom,
                 configLocals, interrupts, sensorOn, adc, buttons, heldTicks>>

\* one frequency sweep; it breaks off at once when the power button is found
\* pressed
AlarmSweep ==
  /\ pc = "alarm" /\ AlarmTimeLeft(alarmElapsed)
  /\ onOffButton' = onOffPin
  /\ IF OnOffSeen
       THEN /\ pressedOnOff' = 1
            /\ UNCHANGED alarmElapsed
       ELSE /\ alarmElapsed' = Min(alarmElapsed + SweepMs, MAX_ALARM_TIME)
            /\ UNCHANGED pressedOnOff
  /\ pc' = "alarm_pause"
  /\ effects' = {"alarm"}
  /\ UNCHANGED <<state, runningTimer, wdtSleepCount, skinType, minutesToBurn, eeprom,
                 configLocals, interrupts, sensorOn, adc, onOffPin, downBeforeSeen,
                 skinPin, setPin, skinButton, setButton, heldTicks>>

\* the pause after a sweep; then return if a press was seen, else test the
\* while condition again.  When playAlarm returns, loop() sets STATE_POWER_OFF
AlarmPause ==
  /\ pc = "alarm_pause"
  /\ onOffButton' = onOffPin
  /\ LET seen == OnOffSeen
         pressed == IF seen THEN 1 ELSE pressedOnOff
     IN  IF AlarmStops(pressed)
           THEN /\ state' = AlarmDoneState
                /\ pc' = "loop"
                /\ alarmElapsed' = 0
                /\ pressedOnOff' = 0
           ELSE /\ pc' = "alarm"
                /\ alarmElapsed' = Min(alarmElapsed + ALARM_PAUSE_TIME, MAX_ALARM_TIME)
                /\ pressedOnOff' = pressed
                /\ UNCHANGED state
  /\ effects' = {}
  /\ UNCHANGED <<runningTimer, wdtSleepCount, skinType, minutesToBurn, eeprom,
                 configLocals, interrupts, sensorOn, adc, onOffPin, downBeforeSeen,
                 skinPin, setPin, skinButton, setButton, heldTicks>>

\* the while condition fails: playAlarm returns, loop() sets STATE_POWER_OFF
AlarmTimeout ==
  /\ pc = "alarm" /\ ~AlarmTimeLeft(alarmElapsed)
  /\ state' = AlarmDoneState
  /\ pc' = "loop"
  /\ alarmElapsed' = 0
  /\ pressedOnOff' = 0
  /\ effects' = {}
  /\ UNCHANGED <<runningTimer, wdtSleepCount, skinType, minutesToBurn, eeprom,
                 configLocals, interrupts, sensorOn, adc, buttons, heldTicks>>

----------------------------------------------------------------------------
(* The user and the power button. *)

PressPower ==
  /\ pc \in {"sleep", "off_armed", "off_sleep", "alarm", "alarm_pause", "halted"}
  /\ onOffPin = HIGH
  /\ onOffPin' = LOW
  /\ effects' = {}
  /\ UNCHANGED <<state, pc, runningTimer, wdtSleepCount, skinType, minutesToBurn, eeprom,
                 configLocals, interrupts, sensorOn, adc, skinPin, setPin, onOffButton,
                 skinButton, setButton, downBeforeSeen, heldTicks, alarmLocals>>

ReleasePower ==
  /\ pc \in {"sleep", "off_armed", "off_sleep", "alarm", "alarm_pause", "cfg", "halted"}
  /\ pc = "cfg" => SetTimeLeft(sinceSet)
  /\ onOffPin = LOW
  /\ onOffPin' = HIGH
  /\ downBeforeSeen' = 0
  /\ sinceEdge' = 0
  /\ effects' = {}
  /\ UNCHANGED <<state, pc, runningTimer, wdtSleepCount, skinType, minutesToBurn, eeprom,
                 spfIndex, tempSkinType, skinTypeNotPressed, sinceSet, sincePress,
                 setShorts, skinPresses, interrupts, sensorOn, adc, skinPin, setPin,
                 onOffButton, skinButton, setButton, heldTicks, alarmLocals>>

----------------------------------------------------------------------------
(* The whole device. *)

Next ==
  \/ SetupSensorFails
  \/ Setup
  \/ DoConfig
  \/ CfgPass
  \/ CfgSetPressed
  \/ CfgSetReleased(MaxSetShortDevice)
  \/ CfgTimeout
  \/ CfgIdle
  \/ PressSet
  \/ PressSkin(MaxSkinDevice)
  \/ ReleaseSkin
  \/ RunCeiling
  \/ RunMinute
  \/ RunMinutePressed
  \/ RunMinuteReleased
  \/ RunIdle
  \/ RunIdlePressed
  \/ RunIdleReleased
  \/ WdtWake
  \/ WdtHeld
  \/ PowerOffEnter
  \/ PowerOffHalt
  \/ Pin2IsrEarly
  \/ Pin2IsrWake
  \/ PlayAlarm
  \/ AlarmSweep
  \/ AlarmPause
  \/ AlarmTimeout
  \/ PressPower
  \/ ReleasePower

Spec == Init /\ [][Next]_vars

----------------------------------------------------------------------------
(* doConfig() on its own: one call, from any skin type a session can have    *)
(* left behind, with enough presses for both selections to wrap.             *)

\* the store that goes with a skin type at the start of a config session: a
\* first boot leaves skinType 0 over a store seeded with 1
StoreFor(s) == SeededStore(IF s = 0 THEN 1 ELSE s)

InitConfig ==
  /\ state = STATE_CONFIG
  /\ pc = "loop"
  /\ runningTimer = 0
  /\ wdtSleepCount = 0
  /\ skinType \in 0..6
  /\ eeprom = StoreFor(skinType)
  /\ minutesToBurn = 0
  /\ spfIndex = 0 /\ tempSkinType = 0 /\ skinTypeNotPressed = 0
  /\ sinceSet = 0 /\ sincePress = 0 /\ sinceEdge = 0
  /\ setShorts = 0 /\ skinPresses = 0
  /\ wdtEnabled = FALSE
  /\ int0Attached = FALSE
  /\ sensorOn = FALSE
  /\ ADCSRA = AdcAfterInit
  /\ adcSettings = AdcAfterInit
  /\ onOffPin = HIGH /\ skinPin = HIGH /\ setPin = HIGH
  /\ onOffButton = HIGH /\ skinButton = HIGH /\ setButton = HIGH
  /\ downBeforeSeen = 0
  /\ heldTicks = 0
  /\ alarmElapsed = 0 /\ pressedOnOff = 0
  /\ effects = {}

NextConfig ==
  \/ DoConfig
  \/ CfgPass
  \/ CfgSetPressed
  \/ CfgSetReleased(MaxSetShortConfig)
  \/ CfgTimeout
  \/ CfgIdle
  \/ PressSet
  \/ PressSkin(MaxSkinConfig)
  \/ ReleaseSkin

SpecConfig == InitConfig /\ [][NextConfig]_vars

\* the main thread keeps running, time passes while there is nothing to see,
\* and a held set button is released
ConfigFairness ==
  /\ WF_vars(DoConfig)
  /\ WF_vars(CfgPass)
  /\ WF_vars(CfgSetPressed)
  /\ WF_vars(CfgSetReleased(MaxSetShortConfig))
  /\ WF_vars(CfgTimeout)
  /\ WF_vars(CfgIdle)

SpecConfigLive == SpecConfig /\ ConfigFairness

----------------------------------------------------------------------------
(* Boot, config sessions and power cycles: the life of the persistent store.  *)
(* A session that has committed stays where the commit left it until the      *)
(* power is cycled.                                                           *)

\* the power is taken away and given back, with skin and set not held: the
\* globals get their initialisers again, the store is as the device left it,
\* and setup() runs next
PowerCycle ==
  /\ pc # "setup"
  /\ skinPin = HIGH /\ setPin = HIGH
  /\ state' = STATE_CONFIG
  /\ pc' = "setup"
  /\ runningTimer' = 0
  /\ wdtSleepCount' = 0
  /\ skinType' = 0
  /\ minutesToBurn' = 0
  /\ DropConfigLocals
  /\ wdtEnabled' = FALSE
  /\ int0Attached' = FALSE
  /\ sensorOn' = FALSE
  /\ ADCSRA' = AdcAfterInit
  /\ adcSettings' = 0
  /\ onOffButton' = onOffPin /\ skinButton' = HIGH /\ setButton' = HIGH
  /\ heldTicks' = 0
  /\ alarmElapsed' = 0 /\ pressedOnOff' = 0
  /\ effects' = {}
  /\ downBeforeSeen' = 0
  /\ UNCHANGED <<eeprom, onOffPin, skinPin, setPin>>

InitCycle ==
  /\ state = STATE_CONFIG
  /\ pc = "setup"
  /\ runningTimer = 0
  /\ wdtSleepCount = 0
  /\ skinType = 0
  /\ minutesToBurn = 0
  /\ eeprom \in CycleStores
  /\ spfIndex = 0 /\ tempSkinType = 0 /\ skinTypeNotPressed = 0
  /\ sinceSet = 0 /\ sincePress = 0 /\ sinceEdge = 0
  /\ setShorts = 0 /\ skinPresses = 0
  /\ wdtEnabled = FALSE
  /\ int0Attached = FALSE
  /\ sensorOn = FALSE
  /\ ADCSRA = AdcAfterInit
  /\ adcSettings = 0
  /\ onOffPin = HIGH /\ skinPin = HIGH /\ setPin = HIGH
  /\ onOffButton = HIGH /\ skinButton = HIGH /\ setButton = HIGH
  /\ downBeforeSeen = 0
  /\ heldTicks = 0
  /\ alarmElapsed = 0 /\ pressedOnOff = 0
  /\ effects = {}

NextCycle ==
  \/ SetupSensorFails
  \/ Setup
  \/ PowerOffEnter
  \/ PowerOffHalt
  \/ Pin2IsrEarly
  \/ Pin2IsrWake
  \/ PressPower
  \/ ReleasePower
  \/ DoConfig
  \/ CfgPass
  \/ CfgSetPressed
  \/ CfgSetReleased(MaxSetShortDevice)
  \/ CfgTimeout
  \/ CfgIdle
  \/ PressSet
  \/ PressSkin(MaxSkinConfig)
  \/ ReleaseSkin
  \/ PowerCycle

SpecCycle == InitCycle /\ [][NextCycle]_vars

----------------------------------------------------------------------------
(* playAlarm() on its own: loop() finds STATE_COMPLETED after the sample that *)
(* used up the budget of a session of skin type 1 without sunscreen, and the  *)
(* main thread keeps running: whenever playAlarm has a next step to take, it  *)
(* takes it.                                                                  *)

InitAlarm ==
  /\ state = STATE_COMPLETED
  /\ pc = "loop"
  /\ runningTimer = 1
  /\ wdtSleepCount = 0
  /\ skinType = 1
  /\ minutesToBurn = Consume(TimeToBurn(1, 1, 0, 0), UvHigh)
  /\ eeprom = SeededStore(1)
  /\ spfIndex = 0 /\ tempSkinType = 0 /\ skinTypeNotPressed = 0
  /\ sinceSet = 0 /\ sincePress = 0 /\ sinceEdge = 0
  /\ setShorts = 0 /\ skinPresses = 0
  /\ wdtEnabled = FALSE
  /\ int0Attached = FALSE
  /\ sensorOn = FALSE
  /\ ADCSRA = AdcAfterInit
  /\ adcSettings = AdcAfterInit
  /\ onOffPin \in {HIGH, LOW} /\ skinPin = HIGH /\ setPin = HIGH
  /\ onOffButton = onOffPin /\ skinButton = HIGH /\ setButton = HIGH
  /\ downBeforeSeen = 0
  /\ heldTicks = 0
  /\ alarmElapsed = 0 /\ pressedOnOff = 0
  /\ effects = {"vcc", "beep", "uv"}

NextAlarm ==
  \/ PlayAlarm
  \/ AlarmSweep
  \/ AlarmPause
  \/ AlarmTimeout
  \/ PressPower
  \/ ReleasePower

AlarmFairness ==
  /\ WF_vars(PlayAlarm)
  /\ WF_vars(AlarmSweep)
  /\ WF_vars(AlarmPause)
  /\ WF_vars(AlarmTimeout)

SpecAlarm == InitAlarm /\ [][NextAlarm]_vars /\ AlarmFairness

----------------------------------------------------------------------------
(* One session: from the commit in doConfig to the end of Running, with the
   watchdog firing and the main thread running. *)

\* the state CfgCommit leaves for skin class 1 without sunscreen
InitRun ==
  /\ state = STATE_RUNNING
  /\ pc = "sleep"
  /\ runningTimer = 0
  /\ wdtSleepCount = 0
  /\ skinType = 1
  /\ minutesToBurn = TimeToBurn(1, 1, 0, 0)
  /\ eeprom = SeededStore(1)
  /\ spfIndex = 0 /\ tempSkinType = 0 /\ skinTypeNotPressed = 0
  /\ sinceSet = 0 /\ sincePress = 0 /\ sinceEdge = 0
  /\ setShorts = 0 /\ skinPresses = 0
  /\ wdtEnabled = TRUE
  /\ int0Attached = FALSE
  /\ sensorOn = FALSE
  /\ ADCSRA = 0
  /\ adcSettings = AdcAfterInit
  /\ onOffPin = HIGH /\ skinPin = HIGH /\ setPin = HIGH
  /\ onOffButton = HIGH /\ skinButton = HIGH /\ setButton = HIGH
  /\ downBeforeSeen = 0
  /\ heldTicks = 0
  /\ alarmElapsed = 0 /\ pressedOnOff = 0
  /\ effects = {"count_spf", "count_skin", "start"}

NextRun ==
  \/ RunCeiling
  \/ RunMinute
  \/ RunMinutePressed
  \/ RunMinuteReleased
  \/ RunIdle
  \/ RunIdlePressed
  \/ RunIdleReleased
  \/ WdtWake
  \/ WdtHeld
  \/ PressPower
  \/ ReleasePower

\* the main thread keeps running, the watchdog keeps waking the processor,
\* and a button held in a hold loop is released
RunFairness ==
  /\ WF_vars(RunCeiling)
  /\ WF_vars(RunMinute)
  /\ WF_vars(RunMinutePressed)
  /\ WF_vars(RunMinuteReleased)
  /\ WF_vars(RunIdle)
  /\ WF_vars(RunIdlePressed)
  /\ WF_vars(RunIdleReleased)
  /\ WF_vars(WdtWake)

SpecRun == InitRun /\ [][NextRun]_vars /\ RunFairness

----------------------------------------------------------------------------
(* The budget as the float it is: the sampling cycles of one session, with
   minutesToBurn counted in F32Scale-ths of a minute. *)

\* sampling cycles followed
MaxMeasures == 8
\* readings of the sensor for UV index 1 and around UV index 2
MeasureRaws == {100, 198, 199, 200}
\* calculateTimeToBurn for skin class 1 or 2 without sunscreen, at the first
\* minute threshold of the session
InitMeasure ==
  /\ state = STATE_RUNNING
  /\ pc = "loop"
  /\ runningTimer = 0
  /\ wdtSleepCount = WDT_MINUTE_COUNT
  /\ skinType \in {1, 2}
  /\ minutesToBurn = skinTypeMinutesPerUVI[skinType + 1] * pressesPerSPF[2] * F32Scale
  /\ eeprom = SeededStore(skinType)
  /\ spfIndex = 0 /\ tempSkinType = 0 /\ skinTypeNotPressed = 0
  /\ sinceSet = 0 /\ sincePress = 0 /\ sinceEdge = 0
  /\ setShorts = 0 /\ skinPresses = 0
  /\ wdtEnabled = TRUE
  /\ int0Attached = FALSE
  /\ sensorOn = FALSE
  /\ ADCSRA = AdcAfterInit
  /\ adcSettings = AdcAfterInit
  /\ onOffPin = HIGH /\ skinPin = HIGH /\ setPin = HIGH
  /\ onOffButton = HIGH /\ skinButton = HIGH /\ setButton = HIGH
  /\ downBeforeSeen = 0
  /\ heldTicks = 0
  /\ alarmElapsed = 0 /\ pressedOnOff = 0
  /\ effects = {}

\* one minute of the session: the fourteen idle wakes, then the minute branch
\* with doMeasure on a reading of raw, which leaves the budget above zero
DoMeasureF32 ==
  /\ pc = "loop" /\ state = STATE_RUNNING
  /\ MinuteReached(wdtSleepCount)
  /\ runningTimer < MaxMeasures
  /\ runningTimer' = NextRunningTimer(runningTimer)
  /\ \E raw \in MeasureRaws :
       /\ ConsumeF32(minutesToBurn, raw) > 0
       /\ minutesToBurn' = ConsumeF32(minutesToBurn, raw)
  /\ effects' = {"vcc", "beep", "uv"}
  /\ UNCHANGED <<state, pc, wdtSleepCount, skinType, eeprom, configLocals, interrupts,
                 sensorOn, adc, buttons, heldTicks, alarmLocals>>

NextMeasure == DoMeasureF32

SpecMeasure == InitMeasure /\ [][NextMeasure]_vars

----------------------------------------------------------------------------
(* The earlier variant, sunburn_monitor_001.ino.  Its defines have the values
   of the later file.  Its third button, on pin 3, is start/stop: skinPin and
   skinButton stand for that pin and its Bounce object, and pressedOnOff for
   playAlarm's local pressedStop. *)

\* what the variant leaves alone from a commit in doConfig on
unused001 ==
  <<skinType, eeprom, configLocals, adc, setPin, setButton, downBeforeSeen, heldTicks>>

\* WDTCSR |= (0 << WDIE): or-ing in a zero leaves the bit as it was
WdieAfterOrZero(enabled) == enabled

\* playAlarm's while condition:
\* ((millis() - alarmTimer) < MAX_ALARM_TIME) || (pressedStop)
AlarmContinues001(elapsed, pressed) == elapsed < MAX_ALARM_TIME \/ pressed = 1

\* pauseTimer is read without ever being set: the pause loop's time test can
\* fail at once or hold for up to ALARM_PAUSE_TIME
PauseTimes001 == {0, ALARM_PAUSE_TIME}

\* the start/stop button is found pressed by a poll
StopSeen001 == skinPin # skinButton /\ skinPin = LOW

\* budgets calculateTimeToBurn can leave
Budgets001 == {skinTypeMinutesPerUVI[4] * 100, UvHigh}

\* the watchdog interrupt fires while the processor is halted in Running
WdtWake001 ==
  /\ pc = "sleep" /\ wdtEnabled
  /\ wdtSleepCount' = TickCount(wdtSleepCount)
  /\ pc' = "loop"
  /\ effects' = {}
  /\ UNCHANGED <<state, runningTimer, minutesToBurn, interrupts, onOffPin, skinPin,
                 onOffButton, skinButton, alarmLocals, sensorOn, unused001>>

\* the watchdog interrupt fires while loop() runs: in Running the case does
\* nothing until the count is 15, and loop() is called again
WdtTick001 ==
  /\ wdtEnabled
  /\ pc = "loop" /\ state = STATE_RUNNING /\ wdtSleepCount # WDT_MINUTE_COUNT
  /\ wdtSleepCount' = TickCount(wdtSleepCount)
  /\ effects' = {}
  /\ UNCHANGED <<state, pc, runningTimer, minutesToBurn, interrupts, onOffPin, skinPin,
                 onOffButton, skinButton, alarmLocals, sensorOn, unused001>>

\* wdtSleepCount == 15 and runningTimer reaches MAX_RUNNING_TIME
RunCeiling001 ==
  /\ pc = "loop" /\ state = STATE_RUNNING
  /\ wdtSleepCount = WDT_MINUTE_COUNT
  /\ runningTimer + 1 = MAX_RUNNING_TIME
  /\ wdtSleepCount' = 0
  /\ runningTimer' = runningTimer + 1
  /\ wdtEnabled' = WdieAfterOrZero(wdtEnabled)
  /\ state' = STATE_POWER_OFF
  /\ effects' = {}
  /\ UNCHANGED <<pc, minutesToBurn, int0Attached, onOffPin, skinPin, onOffButton,
                 skinButton, alarmLocals, sensorOn, unused001>>

\* wdtSleepCount == 15 below the ceiling: shortBeep, doMeasure, then
\* STATE_COMPLETED or sleepNow()
RunMinute001 ==
  /\ pc = "loop" /\ state = STATE_RUNNING
  /\ wdtSleepCount = WDT_MINUTE_COUNT
  /\ runningTimer + 1 # MAX_RUNNING_TIME
  /\ wdtSleepCount' = 0
  /\ runningTimer' = runningTimer + 1
  /\ \E uv \in UvReadings :
       LET budget == Consume(minutesToBurn, uv)
       IN  /\ minutesToBurn' = budget
           /\ IF budget <= 0
                THEN /\ wdtEnabled' = WdieAfterOrZero(wdtEnabled)
                     /\ state' = STATE_COMPLETED
                     /\ UNCHANGED pc
                ELSE /\ pc' = "sleep"
                     /\ UNCHANGED <<state, wdtEnabled>>
  /\ effects' = {"beep", "uv"}
  /\ UNCHANGED <<int0Attached, onOffPin, skinPin, onOffButton, skinButton, alarmLocals,
                 sensorOn, unused001>>

\* case STATE_COMPLETED when playAlarm() comes back: state = STATE_POWER_OFF
AlarmReturns001 ==
  /\ pc = "loop" /\ state = STATE_COMPLETED
  /\ state' = STATE_POWER_OFF
  /\ effects' = {"alarm"}
  /\ UNCHANGED <<pc, runningTimer, wdtSleepCount, minutesToBurn, interrupts, onOffPin,
                 skinPin, onOffButton, skinButton, alarmLocals, sensorOn, unused001>>

\* case STATE_POWER_OFF: sensor off, timer reset, shutdown tone, attachInterrupt,
\* sleepNow() halts
PowerOff001 ==
  /\ pc = "loop" /\ state = STATE_POWER_OFF
  /\ sensorOn' = FALSE
  /\ runningTimer' = 0
  /\ int0Attached' = TRUE
  /\ pc' = "off_sleep"
  /\ effects' = {"shutdown"}
  /\ UNCHANGED <<state, wdtSleepCount, minutesToBurn, wdtEnabled, onOffPin, skinPin,
                 onOffButton, skinButton, alarmLocals, unused001>>

\* halted in power off, the level interrupt fires: pin2_isr detaches itself,
\* sleepNow() returns, state = STATE_CONFIG
Pin2IsrWake001 ==
  /\ pc = "off_sleep"
  /\ int0Attached /\ onOffPin = LOW
  /\ int0Attached' = FALSE
  /\ state' = STATE_CONFIG
  /\ pc' = "loop"
  /\ effects' = {}
  /\ UNCHANGED <<runningTimer, wdtSleepCount, minutesToBurn, wdtEnabled, onOffPin,
                 skinPin, onOffButton, skinButton, alarmLocals, sensorOn, unused001>>

\* halted in power off, the watchdog interrupt fires: sleepNow() returns,
\* state = STATE_CONFIG
WdtWakeOff001 ==
  /\ pc = "off_sleep" /\ wdtEnabled
  /\ wdtSleepCount' = TickCount(wdtSleepCount)
  /\ state' = STATE_CONFIG
  /\ pc' = "loop"
  /\ effects' = {}
  /\ UNCHANGED <<runningTimer, minutesToBurn, interrupts, onOffPin, skinPin,
                 onOffButton, skinButton, alarmLocals, sensorOn, unused001>>

\* the user and the power button, while the processor is halted in power off
PressPower001 ==
  /\ pc = "off_sleep"
  /\ onOffPin = HIGH
  /\ onOffPin' = LOW
  /\ effects' = {}
  /\ UNCHANGED <<state, pc, runningTimer, wdtSleepCount, minutesToBurn, interrupts,
                 skinPin, onOffButton, skinButton, alarmLocals, sensorOn, unused001>>

\* the state the first commit in doConfig leaves: Running, halted, watchdog
\* interrupt enabled
InitRun001 ==
  /\ state = STATE_RUNNING
  /\ pc = "sleep"
  /\ runningTimer = 0
  /\ wdtSleepCount = 0
  /\ skinType = 3
  /\ minutesToBurn \in Budgets001
  /\ eeprom = SeededStore(3)
  /\ spfIndex = 0 /\ tempSkinType = 0 /\ skinTypeNotPressed = 0
  /\ sinceSet = 0 /\ sincePress = 0 /\ sinceEdge = 0
  /\ setShorts = 0 /\ skinPresses = 0
  /\ wdtEnabled = TRUE
  /\ int0Attached = FALSE
  /\ sensorOn = TRUE
  /\ ADCSRA = AdcAfterInit
  /\ adcSettings = 0
  /\ onOffPin = HIGH /\ skinPin = HIGH /\ setPin = HIGH
  /\ onOffButton = HIGH /\ skinButton = HIGH /\ setButton = HIGH
  /\ downBeforeSeen = 0
  /\ heldTicks = 0
  /\ alarmElapsed = 0 /\ pressedOnOff = 0
  /\ effects = {}

NextRun001 ==
  \/ WdtWake001
  \/ WdtTick001
  \/ RunCeiling001
  \/ RunMinute001
  \/ AlarmReturns001
  \/ PowerOff001
  \/ Pin2IsrWake001
  \/ WdtWakeOff001
  \/ PressPower001

SpecRun001 == InitRun001 /\ [][NextRun001]_vars

\* playAlarm() up to the first test of its while loop
PlayAlarm001 ==
  /\ pc = "loop" /\ state = STATE_COMPLETED
  /\ alarmElapsed' = 0
  /\ pressedOnOff' = 0
  /\ pc' = "alarm"
  /\ effects' = {}
  /\ UNCHANGED <<state, runningTimer, wdtSleepCount, minutesToBurn, interrupts, onOffPin,
                 skinPin, onOffButton, skinButton, sensorOn, unused001>>

\* one pass of the for loop: it breaks off when start/stop is found pressed
AlarmSweep001 ==
  /\ pc = "alarm" /\ AlarmContinues001(alarmElapsed, pressedOnOff)
  /\ skinButton' = skinPin
  /\ IF StopSeen001
       THEN /\ pressedOnOff' = 1
            /\ UNCHANGED alarmElapsed
       ELSE /\ alarmElapsed' = Min(alarmElapsed + SweepMs, MAX_ALARM_TIME)
            /\ UNCHANGED pressedOnOff
  /\ pc' = "alarm_pause"
  /\ effects' = {"alarm"}
  /\ UNCHANGED <<state, runningTimer, wdtSleepCount, minutesToBurn, interrupts, onOffPin,
                 skinPin, onOffButton, sensorOn, unused001>>

\* the pause loop, while (((millis() - pauseTimer) < ALARM_PAUSE_TIME) ||
\* (pressedStop)): left by a press, or, with the flag clear, by the time test
AlarmPause001 ==
  /\ pc = "alarm_pause"
  /\ skinButton' = skinPin
  /\ IF StopSeen001
       THEN /\ pressedOnOff' = 1
            /\ UNCHANGED alarmElapsed
       ELSE /\ pressedOnOff = 0
            /\ \E d \in PauseTimes001 :
                 alarmElapsed' = Min(alarmElapsed + d, MAX_ALARM_TIME)
            /\ UNCHANGED pressedOnOff
  /\ pc' = "alarm"
  /\ effects' = {}
  /\ UNCHANGED <<state, runningTimer, wdtSleepCount, minutesToBurn, interrupts, onOffPin,
                 skinPin, onOffButton, sensorOn, unused001>>

\* the while condition fails: playAlarm returns, loop() sets STATE_POWER_OFF
AlarmExit001 ==
  /\ pc = "alarm" /\ ~AlarmContinues001(alarmElapsed, pressedOnOff)
  /\ state' = STATE_POWER_OFF
  /\ pc' = "loop"
  /\ effects' = {}
  /\ UNCHANGED <<runningTimer, wdtSleepCount, minutesToBurn, interrupts, onOffPin,
                 skinPin, onOffButton, skinButton, alarmLocals, sensorOn, unused001>>

\* the user and the start/stop button during the alarm
PressStop001 ==
  /\ pc \in {"alarm", "alarm_pause"}
  /\ skinPin = HIGH
  /\ skinPin' = LOW
  /\ effects' = {}
  /\ UNCHANGED <<state, pc, runningTimer, wdtSleepCount, minutesToBurn, interrupts,
                 onOffPin, onOffButton, skinButton, alarmLocals, sensorOn, unused001>>

ReleaseStop001 ==
  /\ pc \in {"alarm", "alarm_pause"}
  /\ skinPin = LOW
  /\ skinPin' = HIGH
  /\ effects' = {}
  /\ UNCHANGED <<state, pc, runningTimer, wdtSleepCount, minutesToBurn, interrupts,
                 onOffPin, onOffButton, skinButton, alarmLocals, sensorOn, unused001>>

\* Completed as the first sampling cycle of a session leaves it.  Nothing in
\* playAlarm reads wdtSleepCount, and it stays where that cycle left it.
InitAlarm001 ==
  /\ state = STATE_COMPLETED
  /\ pc = "loop"
  /\ runningTimer = 1
  /\ wdtSleepCount = 0
  /\ skinType = 3
  /\ minutesToBurn = 0
  /\ eeprom = SeededStore(3)
  /\ spfIndex = 0 /\ tempSkinType = 0 /\ skinTypeNotPressed = 0
  /\ sinceSet = 0 /\ sincePress = 0 /\ sinceEdge = 0
  /\ setShorts = 0 /\ skinPresses = 0
  /\ wdtEnabled = TRUE
  /\ int0Attached = FALSE
  /\ sensorOn = TRUE
  /\ ADCSRA = AdcAfterInit
  /\ adcSettings = 0
  /\ onOffPin = HIGH /\ skinPin = HIGH /\ setPin = HIGH
  /\ onOffButton = HIGH /\ skinButton = HIGH /\ setButton = HIGH
  /\ downBeforeSeen = 0
  /\ heldTicks = 0
  /\ alarmElapsed = 0 /\ pressedOnOff = 0
  /\ effects = {"beep", "uv"}

NextAlarm001 ==
  \/ PlayAlarm001
  \/ AlarmSweep001
  \/ AlarmPause001
  \/ AlarmExit001
  \/ PressStop001
  \/ ReleaseStop001

\* the main thread keeps running
AlarmFairness001 ==
  /\ WF_vars(PlayAlarm001)
  /\ WF_vars(AlarmSweep001)
  /\ WF_vars(AlarmPause001)
  /\ WF_vars(AlarmExit001)

SpecAlarm001 == InitAlarm001 /\ [][NextAlarm001]_vars /\ AlarmFairness001

----------------------------------------------------------------------------
(* Properties. *)

TypeOK ==
  /\ state \in {STATE_POWER_OFF, STATE_CONFIG, STATE_RUNNING, STATE_COMPLETED}
  /\ runningTimer \in 0..MAX_RUNNING_TIME
  /\ wdtSleepCount \in 0..255

\* a step in which doConfig commits
CommitStep == state = STATE_CONFIG /\ state' = STATE_RUNNING

\* a step in which the minute branch takes a UV sample
SampleStep == state = STATE_RUNNING /\ "uv" \in effects'

\* a step in which doConfig's while loop sees a press of skin
SkinPressStep ==
  pc \in {"cfg", "cfg_hold"} /\ pc' = "cfg" /\ skinButton = HIGH /\ skinButton' = LOW

\* a step in which doConfig gives up and the machine goes to power off
ConfigTimeoutStep == state = STATE_CONFIG /\ pc = "cfg" /\ state' = STATE_POWER_OFF

\* C1: after every sampling cycle in Running the state is Completed when the
\* budget is <= 0 and Running when it is > 0; and while the state is Running
\* with a budget <= 0, no step changes the budget.
C1_BudgetDecidesCompletion ==
  [][ /\ SampleStep =>
           /\ minutesToBurn' <= 0 => state' = STATE_COMPLETED
           /\ minutesToBurn' > 0 => state' = STATE_RUNNING
      /\ (state = STATE_RUNNING /\ minutesToBurn <= 0) =>
           minutesToBurn' = minutesToBurn ]_vars

\* C2: the step of Running that brings runningTimer to 720 goes to PowerOff,
\* whatever the budget is, with no voltage read, no tone, no UV sample and
\* no change of the budget; so runningTimer is 720 only in PowerOff and Running
\* never continues at the ceiling.
C2_CeilingForcesPowerOff ==
  /\ [](runningTimer = MAX_RUNNING_TIME => state = STATE_POWER_OFF)
  /\ [][ (state = STATE_RUNNING /\ pc = "loop" /\ wdtSleepCount = WDT_MINUTE_COUNT
            /\ runningTimer = MAX_RUNNING_TIME - 1) =>
           /\ state' = STATE_POWER_OFF
           /\ runningTimer' = MAX_RUNNING_TIME
           /\ minutesToBurn' = minutesToBurn
           /\ effects' \cap {"vcc", "uv", "beep", "lowbatt", "alarm"} = {} ]_vars

\* C2 witness: the ceiling was reached with a positive budget
C2_Witness ==
  runningTimer = MAX_RUNNING_TIME /\ state = STATE_POWER_OFF /\ minutesToBurn > 0

\* C3: the state is always one of the four, and every change of state is one
\* of PowerOff->Config, Config->Running, Config->PowerOff, Running->Completed,
\* Running->PowerOff, Completed->PowerOff; Running is entered only by the commit
\* in doConfig's hold loop.
C3_OnlyTableTransitions ==
  /\ [](state \in {STATE_POWER_OFF, STATE_CONFIG, STATE_RUNNING, STATE_COMPLETED})
  /\ [][ state' # state =>
           /\ <<state, state'>> \in
                {<<STATE_POWER_OFF, STATE_CONFIG>>, <<STATE_CONFIG, STATE_RUNNING>>,
                 <<STATE_CONFIG, STATE_POWER_OFF>>, <<STATE_RUNNING, STATE_COMPLETED>>,
                 <<STATE_RUNNING, STATE_POWER_OFF>>, <<STATE_COMPLETED, STATE_POWER_OFF>>}
           /\ state' = STATE_RUNNING => (pc = "cfg_hold" /\ "start" \in effects') ]_vars

\* C3 witness: Completed, reached from Running, with the alarm played to its end
\* and about to hand over to PowerOff
C3_Witness ==
  state = STATE_COMPLETED /\ pc = "alarm" /\ ~(alarmElapsed < MAX_ALARM_TIME)

\* C4: when the processor leaves the halt of the PowerOff case the state becomes
\* Config, and PowerOff is never followed by any state but Config.
C4_WakeLandsInConfig ==
  [][ /\ (pc = "off_sleep" /\ pc' # "off_sleep") => state' = STATE_CONFIG
      /\ (state = STATE_POWER_OFF /\ state' # state) => state' = STATE_CONFIG ]_vars

\* C4 witness: just woken by the power button, about to run doConfig
C4_Witness ==
  state = STATE_CONFIG /\ pc = "loop" /\ ~int0Attached /\ onOffPin = LOW

\* the multiplier for SPF index s as the specification gives it
SpecSpfMultiplier == <<1, 10, 15, 30, 45>>

\* C5: at every commit with a selected skin class c in 1..6, the SPF index s is
\* in 1..5 and the budget at entry to Running is the documented minutes per UVI
\* of class c times the multiplier of s, a product below 2^16.
C5_InitialBudget ==
  [][ (CommitStep /\ tempSkinType \in 1..6) =>
        /\ spfIndex \in 1..5
        /\ HeaderMinutesPerUVI[tempSkinType] * SpecSpfMultiplier[spfIndex] < 65536
        /\ minutesToBurn' =
             HeaderMinutesPerUVI[tempSkinType] * SpecSpfMultiplier[spfIndex] * 100 ]_vars

\* C6: at a commit with SPF index 1 (multiplier 1) and a selected skin class c
\* in 1..6, the lookup stays inside the table and the budget is 67, 100, 200,
\* 300, 400, 500 minutes for c = 1..6.
C6_SkinTable ==
  [][ (CommitStep /\ spfIndex = 1 /\ tempSkinType \in 1..6) =>
        /\ tempSkinType < Len(skinTypeMinutesPerUVI)
        /\ minutesToBurn' = HeaderMinutesPerUVI[tempSkinType] * 100 ]_vars

\* C7: once setup() has completed, the active skin class is in 1..6.
C7_SkinTypeInRange ==
  pc \notin {"setup", "halted"} => skinType \in 1..6

\* C8: inside doConfig the SPF index is always in 1..5.
C8_SpfIndexInRange ==
  pc \in {"cfg", "cfg_hold"} => spfIndex \in 1..5

\* C9: the first press of skin in a config session sets the temporary class to
\* 1 whatever the stored class is, every later press takes it from t to t + 1
\* and from 6 to 1, and once skin has been pressed the temporary class is in 1..6.
C9_SkinCycle ==
  /\ []((pc \in {"cfg", "cfg_hold"} /\ skinTypeNotPressed = 0) => tempSkinType \in 1..6)
  /\ [][ SkinPressStep =>
           /\ skinTypeNotPressed' = 0
           /\ skinTypeNotPressed = 1 => tempSkinType' = 1
           /\ skinTypeNotPressed = 0 =>
                tempSkinType' = (IF tempSkinType = 6 THEN 1 ELSE tempSkinType + 1) ]_vars

\* C9 witness: seven presses of skin, over a stored class other than 1, have
\* taken the temporary class through 6 and back to 1
C9_Witness ==
  pc = "cfg" /\ skinPresses = 7 /\ skinButton = LOW /\ tempSkinType = 1 /\ skinType = 3

\* C10 as stated: Config gives up only when 30000 ms have passed since the
\* last edge on any control.
C10_TimeoutAfterLastEdge ==
  [][ ConfigTimeoutStep => sinceEdge >= SET_TIMEOUT ]_vars

\* C10 as amended: when 30000 ms have passed in Config with no edge on any
\* control the while condition has failed, so the machine leaves for PowerOff;
\* it leaves without a budget, without a write to the store and with the
\* watchdog interrupt off; and it never leaves before 30000 ms have passed
\* since the last press or release of set or press of skin.
C10_InactivityTimeout ==
  /\ []((pc = "cfg" /\ sinceEdge >= SET_TIMEOUT) => ~(sinceSet < SET_TIMEOUT))
  /\ [][ ConfigTimeoutStep =>
           /\ sincePress >= SET_TIMEOUT
           /\ minutesToBurn' = minutesToBurn
           /\ eeprom' = eeprom
           /\ ~wdtEnabled'
           /\ effects' = {} ]_vars

\* C10 witness: Config has just timed out after a press of skin
C10_Witness ==
  state = STATE_POWER_OFF /\ pc = "loop" /\ skinButton = LOW /\ ~wdtEnabled
    /\ runningTimer = 0 /\ effects = {}

\* doConfig's while loop has seen every edge of set and skin made so far
ConfigPolled ==
  pc \in {"cfg", "cfg_hold"} /\ setPin = setButton /\ skinPin = skinButton

\* C11 as stated: in Config the inactivity window runs from the last edge on
\* any control, so the time on the window is never more than the time since
\* that edge.
C11_AnyEdgeRestartsWindow ==
  ConfigPolled => sinceSet <= sinceEdge

\* C11 as amended: in Config the inactivity window runs from the last press or
\* release of set or press of skin, and from nothing else: a step that sees
\* one of them puts the window back to 0, and once the loop has seen every
\* edge the time on the window is the time since the last of them.
C11_SetAndSkinRestartWindow ==
  /\ [](ConfigPolled => sinceSet = sincePress)
  /\ [][ (pc \in {"cfg", "cfg_hold"} /\ pc' \in {"cfg", "cfg_hold"}
            /\ (setButton' # setButton \/ (skinButton = HIGH /\ skinButton' = LOW))) =>
           sinceSet' = 0 ]_vars

\* C11 witness: set is held down, its press seen by the loop after a press and
\* a release of skin, and the window is back at 0
C11_Witness ==
  pc = "cfg_hold" /\ setButton = LOW /\ skinPresses = 1 /\ skinButton = HIGH
    /\ sinceSet = 0 /\ sincePress = 0

\* the labels of the writes to the persistent store
StoreWrites == {"ee125", "ee126", "ee127"}

\* C12: a commit whose temporary skin class equals the stored and active class
\* writes nothing to the persistent store; a commit whose temporary class
\* differs writes the skin class cell, with the new class, and no other cell;
\* no other step of Config writes to the store.
C12_WriteOnlyOnChange ==
  [][ /\ (CommitStep /\ (tempSkinType = skinType \/ tempSkinType = eeprom[EE_SKIN_TYPE])) =>
           (eeprom' = eeprom /\ effects' \cap StoreWrites = {})
      /\ (CommitStep /\ tempSkinType # skinType /\ tempSkinType # eeprom[EE_SKIN_TYPE]) =>
           /\ eeprom' = [eeprom EXCEPT ![EE_SKIN_TYPE] = tempSkinType]
           /\ effects' \cap StoreWrites = {"ee127"}
      /\ (state = STATE_CONFIG /\ pc # "setup" /\ ~CommitStep) =>
           (eeprom' = eeprom /\ effects' \cap StoreWrites = {}) ]_vars

\* a step in which the power is cycled
PowerCycleStep == pc # "setup" /\ pc' = "setup"

\* C13: when the power is cycled in a session that has committed, the skin
\* class setup() loads from the store as the session left it is the class that
\* was active in the session.
C13_SkinClassDurable ==
  [][ (PowerCycleStep /\ state \in {STATE_RUNNING, STATE_COMPLETED}) =>
        SetupSkinType(eeprom', skinType') = skinType ]_vars

\* a step in which setup() runs its checkbyte test
SetupStep == pc = "setup" /\ pc' # "setup"

\* C14: a boot that finds a checkbyte not matching seeds the store with both
\* checkbytes and skin class 1, and a boot that finds both matching writes
\* nothing; and a commit made with no press of skin over a store holding
\* class 1, as in the first session after seeding, gives a budget of 67
\* minutes times the multiplier of the SPF index.
C14_FirstBootSeedsClassOne ==
  [][ /\ SetupStep =>
           IF eeprom[EE_CHECKBYTE_1] = CHECK_VALUE_1 /\ eeprom[EE_CHECKBYTE_2] = CHECK_VALUE_2
             THEN eeprom' = eeprom /\ effects' \cap StoreWrites = {}
             ELSE eeprom' = SeededStore(1) /\ StoreWrites \subseteq effects'
      /\ (CommitStep /\ skinTypeNotPressed = 1 /\ eeprom[EE_SKIN_TYPE] = 1
            /\ spfIndex \in 1..5) =>
           minutesToBurn' = HeaderMinutesPerUVI[1] * SpecSpfMultiplier[spfIndex] * 100 ]_vars

\* C15: a setup() whose sensor initialisation fails plays the error tone and
\* no startup tone, and stays in its while (1): from then on, until the power
\* is cycled, the main thread is halted there, the state, the timers, the
\* budget, the store and the ADC registers do not change, no interrupt is
\* enabled and no tone is played.
C15_SensorFailureHalts ==
  [][ /\ (SetupStep /\ "error" \in effects') =>
           /\ pc' = "halted"
           /\ "startup" \notin effects'
           /\ state' = state
           /\ ~wdtEnabled' /\ ~int0Attached'
           /\ UNCHANGED adc
      /\ (pc = "halted" /\ ~PowerCycleStep) =>
           /\ pc' = "halted"
           /\ effects' = {}
           /\ UNCHANGED <<state, runningTimer, wdtSleepCount, skinType, minutesToBurn,
                          eeprom, interrupts, sensorOn, adc>> ]_vars

\* C15 witness: halted in setup() on a boot that followed a committed session,
\* with the power button pressed to no effect
C15_Witness ==
  pc = "halted" /\ onOffPin = LOW /\ eeprom[EE_SKIN_TYPE] = 3 /\ effects = {}

\* C16: when the power button is released in the hold loop of a minute sampling
\* point after 1000 ms or more, the machine goes to PowerOff with the watchdog
\* interrupt off and with no voltage read, no tone, no UV read and no change of
\* the budget; when it is released sooner, the cycle samples as it would have
\* without the press and the state after it is Running or, with the budget
\* used up, Completed.
C16_LongPressOverridesSample ==
  [][ \A d \in HoldDurations :
        RunMinuteHeld(d) =>
          IF d >= LONG_CLICK_MS
            THEN /\ state' = STATE_POWER_OFF
                 /\ ~wdtEnabled'
                 /\ effects' = {}
                 /\ minutesToBurn' = minutesToBurn
            ELSE /\ {"vcc", "uv"} \subseteq effects'
                 /\ effects' \cap {"beep", "lowbatt"} # {}
                 /\ state' = (IF minutesToBurn' <= 0 THEN STATE_COMPLETED ELSE STATE_RUNNING) ]_vars

\* C16 witness: a session with budget left, powered off by a long press at a
\* minute sampling point
C16_Witness ==
  state = STATE_POWER_OFF /\ pc = "loop" /\ runningTimer = 2 /\ wdtSleepCount = 0
    /\ ~wdtEnabled /\ minutesToBurn > 0 /\ onOffButton = HIGH

\* what a release of set after d milliseconds does: under 1000 ms it steps the
\* SPF index and changes nothing else of the session, from 1000 ms on it commits
SetClassifiedAt(d) ==
  /\ CfgSetShort(d, MaxSetShortDevice) =>
       /\ d < LONG_CLICK_MS
       /\ spfIndex' # spfIndex
       /\ UNCHANGED <<state, skinType, tempSkinType, minutesToBurn, eeprom, wdtEnabled>>
  /\ CfgCommit(d) => (d >= LONG_CLICK_MS /\ state' = STATE_RUNNING)

\* C17 as stated: a press is long exactly when the control has been down for
\* 1000 ms or more since its falling edge; so set commits exactly then, and a
\* release of the power button in Running powers off exactly when the button
\* was down for 1000 ms or more, the time before loop() polled it included.
C17_ClassifiedFromFallingEdge ==
  [][ \A d \in HoldDurations :
        /\ SetClassifiedAt(d)
        /\ (RunMinuteHeld(d) \/ RunIdleHeld(d)) =>
             (state' = STATE_POWER_OFF <=> downBeforeSeen + d >= LONG_CLICK_MS) ]_vars

\* C17 as amended: a press is long exactly when the control is released 1000 ms
\* or more after the poll that saw it go down; so set commits exactly then, a
\* shorter press of set only steps the SPF index, and a release of the power
\* button in Running powers off exactly when it comes 1000 ms or more after
\* loop() saw the press, whatever time the button was down before that.
C17_ClassifiedFromPoll ==
  [][ \A d \in HoldDurations :
        /\ SetClassifiedAt(d)
        /\ (RunMinuteHeld(d) \/ RunIdleHeld(d)) =>
             (state' = STATE_POWER_OFF <=> d >= LONG_CLICK_MS) ]_vars

\* C17 witness: the power button, down for a long click's worth before the
\* watchdog woke the processor, has been seen pressed by loop() in a session
\* whose SPF index was stepped by a short press of set
C17_Witness ==
  pc = "run_hold_idle" /\ downBeforeSeen = LONG_CLICK_MS /\ state = STATE_RUNNING
    /\ minutesToBurn = skinTypeMinutesPerUVI[2] * pressesPerSPF[3] * 100

\* C18: the alarm sounds, and playAlarm runs, only in Completed with the budget
\* at or below 0; Completed is entered only from Running by a sample that
\* leaves the budget at or below 0; and a step that takes Running or Config to
\* PowerOff (session ceiling, long press of power, config timeout) sounds no
\* alarm and does not start playAlarm.
C18_AlarmOnlyWhenBudgetSpent ==
  /\ [](("alarm" \in effects \/ pc \in {"alarm", "alarm_pause"}) =>
          (state = STATE_COMPLETED /\ minutesToBurn <= 0))
  /\ [][ /\ (state' = STATE_COMPLETED /\ state # STATE_COMPLETED) =>
              (state = STATE_RUNNING /\ "uv" \in effects' /\ minutesToBurn' <= 0)
         /\ (state \in {STATE_RUNNING, STATE_CONFIG} /\ state' = STATE_POWER_OFF) =>
              ("alarm" \notin effects' /\ pc' = "loop") ]_vars

\* C18 witness: the alarm is sounding in a session whose budget a sample has
\* taken below 0
C18_Witness ==
  pc = "alarm_pause" /\ effects = {"alarm"} /\ state = STATE_COMPLETED
    /\ minutesToBurn < 0 /\ runningTimer = 3

\* C19: Completed always leads to PowerOff: with the main thread running,
\* playAlarm returns whatever the presses and releases of the power button
\* are, and the state that follows Completed is PowerOff, never Running or
\* Config.
C19_CompletedLeadsToPowerOff ==
  /\ (state = STATE_COMPLETED) ~> (state = STATE_POWER_OFF)
  /\ [][ (state = STATE_COMPLETED /\ state' # state) => state' = STATE_POWER_OFF ]_vars

\* C19 witness: playAlarm has returned on a press of the power button that is
\* still held, and the state is PowerOff
C19_Witness ==
  state = STATE_POWER_OFF /\ pc = "loop" /\ onOffButton = LOW /\ onOffPin = LOW
    /\ minutesToBurn <= 0 /\ runningTimer > 0 /\ effects = {} /\ alarmElapsed = 0

\* C20: in playAlarm, a sweep that sees a press of the power button breaks off
\* and records it; the pause that follows a recorded press, or that sees a
\* press itself, is followed by the return and not by another sweep, so no
\* sweep ever starts with a press recorded; and with no press recorded the
\* pause is followed by the while test, which lets playAlarm return only when
\* 15000 ms have elapsed.
C20_PressEndsAlarm ==
  /\ [](pc = "alarm" => pressedOnOff = 0)
  /\ [][ /\ (pc = "alarm" /\ pc' = "alarm_pause" /\ OnOffSeen) =>
              (pressedOnOff' = 1 /\ alarmElapsed' = alarmElapsed)
         /\ (pc = "alarm_pause" /\ pc' # pc) =>
              IF pressedOnOff = 1 \/ OnOffSeen
                THEN (pc' = "loop" /\ state' = STATE_POWER_OFF /\ "alarm" \notin effects')
                ELSE (pc' = "alarm" /\ state' = state)
         /\ (pc = "alarm" /\ pc' = "loop") =>
              (alarmElapsed >= MAX_ALARM_TIME /\ state' = STATE_POWER_OFF)
         /\ (pc = "alarm" /\ pc' = "alarm_pause" /\ ~OnOffSeen) =>
              (alarmElapsed < MAX_ALARM_TIME /\ "alarm" \in effects') ]_vars

\* C20 witness: a sweep late in the playback has seen a press and broken off,
\* and the pause before the return is running
C20_Witness ==
  pc = "alarm_pause" /\ pressedOnOff = 1 /\ onOffButton = LOW
    /\ alarmElapsed > MAX_ALARM_TIME - 2 * (SweepMs + ALARM_PAUSE_TIME)
    /\ state = STATE_COMPLETED

\* a step of loop() that finds the tick counter at the minute threshold
MinuteStep ==
  pc = "loop" /\ state = STATE_RUNNING /\ wdtSleepCount = WDT_MINUTE_COUNT /\ pc' # pc

\* C21: runningTimer is always in 0..720; the PowerOff case and doConfig both
\* set it to 0, so it is 0 while the machine waits in PowerOff and when a
\* session commits; a step of loop() that finds the tick counter at 15 adds
\* exactly 1 to it, and no other step changes it except to set it to 0.
C21_RunningTimerDiscipline ==
  /\ [](/\ runningTimer \in 0..MAX_RUNNING_TIME
        /\ pc \in {"off_armed", "off_sleep", "cfg", "cfg_hold"} => runningTimer = 0)
  /\ [][ /\ CommitStep => runningTimer' = 0
         /\ (MinuteStep \/ (pc = "loop" /\ state = STATE_RUNNING /\ runningTimer' # runningTimer))
              => (wdtSleepCount = WDT_MINUTE_COUNT /\ runningTimer' = runningTimer + 1)
         /\ (runningTimer' # runningTimer /\ ~(pc = "loop" /\ state = STATE_RUNNING))
              => runningTimer' = 0 ]_vars

\* C21 witness: a session in its last minute before the ceiling, asleep
C21_Witness ==
  state = STATE_RUNNING /\ pc = "sleep" /\ runningTimer = MAX_RUNNING_TIME - 1
    /\ wdtSleepCount = WDT_MINUTE_COUNT - 1

\* C22: after a setup() that finds the sensor, the state loop() handles first
\* is Config.
C22_BootEntersConfig ==
  [][ (SetupStep /\ pc' = "loop") => state' = STATE_CONFIG ]_vars

\* C23: every call of doConfig starts with the SPF index at 1, whatever any
\* earlier session chose, and a commit with no short press of set in the
\* session takes the multiplier of index 1, which is 1: the budget is the
\* minutes per UVI of the committed skin type.
C23_SpfIsSessionOnly ==
  [][ /\ (pc = "loop" /\ pc' = "cfg") => spfIndex' = 1
      /\ (CommitStep /\ setShorts = 0) =>
           /\ spfIndex = 1
           /\ pressesPerSPF[spfIndex + 1] = 1
           /\ tempSkinType < Len(skinTypeMinutesPerUVI) =>
                minutesToBurn' = skinTypeMinutesPerUVI[tempSkinType + 1] * 100 ]_vars

\* C23 witness: a new config session begins at index 1 while the budget still
\* standing is that of a session of skin type 1 committed at SPF index 2
C23_Witness ==
  pc = "cfg" /\ spfIndex = 1 /\ setShorts = 0
    /\ minutesToBurn = skinTypeMinutesPerUVI[2] * pressesPerSPF[3] * 100

\* a step that ends the hold loop of a minute sampling point
MinuteReleaseStep == pc = "run_hold_min" /\ pc' # pc

\* C24 as stated: the tick counter never exceeds 15, and every step of loop()
\* that finds it at 15 resets it, adds 1 to runningTimer and runs a sampling
\* cycle, at once or when the power button it found pressed is released.
C24_EveryThresholdSampled ==
  /\ [](wdtSleepCount <= WDT_MINUTE_COUNT)
  /\ [][ /\ MinuteStep =>
              /\ wdtSleepCount' = 0
              /\ runningTimer' = runningTimer + 1
              /\ "uv" \in effects' \/ pc' = "run_hold_min"
         /\ MinuteReleaseStep => "uv" \in effects' ]_vars

\* C24 as amended: a session never goes to sleep with the tick counter at 15
\* or more; every step of loop() that finds it at 15 resets it and adds 1 to
\* runningTimer, and runs one sampling cycle unless that minute is the
\* ceiling or a long press of power is seen at it, which both end the session
\* in PowerOff; and the counter is above 15 only in the hold loop between
\* minutes, after ticks counted during a hold, or once the session is over.
C24_ThresholdHandledOrSessionEnds ==
  /\ []((state = STATE_RUNNING /\ pc = "sleep") => wdtSleepCount < WDT_MINUTE_COUNT)
  /\ [](wdtSleepCount > WDT_MINUTE_COUNT =>
          (pc = "run_hold_idle" \/ state \in {STATE_POWER_OFF, STATE_CONFIG}))
  /\ [][ /\ MinuteStep =>
              /\ wdtSleepCount' = 0
              /\ runningTimer' = runningTimer + 1
              /\ IF runningTimer' = MAX_RUNNING_TIME
                   THEN state' = STATE_POWER_OFF /\ "uv" \notin effects'
                   ELSE "uv" \in effects' \/ pc' = "run_hold_min"
         /\ MinuteReleaseStep => ("uv" \in effects' \/ state' = STATE_POWER_OFF)
         /\ (pc = "run_hold_idle" /\ pc' # pc /\ wdtSleepCount >= WDT_MINUTE_COUNT) =>
              state' = STATE_POWER_OFF ]_vars

\* C24 witness: two ticks counted during a hold of the power button between
\* minutes have taken the counter from 14 past the threshold
C24_Witness ==
  pc = "run_hold_idle" /\ heldTicks = 2 /\ wdtSleepCount = WDT_MINUTE_COUNT + 1

\* C25: the processor is never halted in PowerOff with the wake interrupt
\* detached and the watchdog interrupt disabled.
C25_NoLostWakeup ==
  ~(pc = "off_sleep" /\ state = STATE_POWER_OFF /\ ~int0Attached /\ ~wdtEnabled)

\* C27: pin2_isr is attached only while the state is PowerOff, so never in
\* doConfig, in a session or during the alarm; and whenever the processor is
\* halted in PowerOff the watchdog interrupt is disabled, also after the long
\* press between minutes, which leaves it enabled on the way to PowerOff.
C27_ArmingFollowsState ==
  /\ int0Attached => state = STATE_POWER_OFF
  /\ pc \in {"off_armed", "off_sleep"} => (state = STATE_POWER_OFF /\ ~wdtEnabled)
  /\ pc \in {"cfg", "cfg_hold", "sleep", "run_hold_min", "run_hold_idle",
              "alarm", "alarm_pause"} => ~int0Attached

\* C27 witness: halted in PowerOff, armed, after a long press between minutes
\* of a session that two ticks in the hold loop had taken to its threshold
C27_Witness ==
  pc = "off_sleep" /\ int0Attached /\ ~wdtEnabled /\ state = STATE_POWER_OFF
    /\ wdtSleepCount = WDT_MINUTE_COUNT /\ minutesToBurn > 0

\* a step of loop() in a session that tests or resets wdtSleepCount
CounterAccessStep ==
  /\ state = STATE_RUNNING
  /\ pc \in {"loop", "run_hold_min"}
  /\ pc' # pc

\* C26 as stated: the watchdog interrupt is disabled in every step of loop()
\* that compares wdtSleepCount with 15 or resets it.
C26_CounterAccessQuiesced == [][ CounterAccessStep => ~wdtEnabled ]_vars

\* C26: the watchdog interrupt stays enabled while loop() compares and resets
\* wdtSleepCount in a session.  No counted tick is discarded all the same: a
\* step that lowers the counter and stays in Running takes it from 15 to 0 at
\* the top of loop(), and a hold loop in which the handler counted a tick ends
\* the session and leaves the counter as the handler left it.
C26_NoTickDiscardedByTiming ==
  [][ /\ CounterAccessStep => wdtEnabled
      /\ (state = STATE_RUNNING /\ state' = STATE_RUNNING
            /\ wdtSleepCount' < wdtSleepCount)
           => (pc = "loop" /\ wdtSleepCount = WDT_MINUTE_COUNT /\ wdtSleepCount' = 0)
      /\ (pc \in {"run_hold_min", "run_hold_idle"} /\ pc' # pc /\ heldTicks > 0)
           => (state' = STATE_POWER_OFF /\ wdtSleepCount' = wdtSleepCount) ]_vars

\* C26 witness: between the reset at the threshold and the reset after
\* doMeasure, in the hold loop, with a tick counted by the handler
C26_Witness ==
  pc = "run_hold_min" /\ wdtEnabled /\ heldTicks = 1 /\ wdtSleepCount = 1
    /\ runningTimer = 1

\* C28: with the watchdog firing and held buttons released, a Running session
\* ends in Completed or PowerOff; runningTimer counts its minute thresholds
\* and stops at 720, and a sampling cycle runs only for thresholds 1..719.
C28_RunningEnds ==
  /\ (state = STATE_RUNNING) ~> (state \in {STATE_COMPLETED, STATE_POWER_OFF})
  /\ [](runningTimer <= MAX_RUNNING_TIME)
  /\ [][ /\ MinuteStep => runningTimer' = runningTimer + 1
         /\ SampleStep => runningTimer' \in 1..(MAX_RUNNING_TIME - 1) ]_vars

\* C28 witness: the session ended at the ceiling, with the budget it began with
C28_Witness ==
  state = STATE_POWER_OFF /\ pc = "loop" /\ runningTimer = MAX_RUNNING_TIME
    /\ minutesToBurn = TimeToBurn(1, 1, 0, 0) /\ ~wdtEnabled

\* C29: with held buttons released and presses coming to an end, a Config
\* session ends in Running or PowerOff.  Once the window has run out at the
\* while test the next step is the timeout; the hold loop for set has no
\* timeout test, and the release of set is its only way out.
C29_ConfigEnds ==
  /\ (state = STATE_CONFIG) ~> (state \in {STATE_RUNNING, STATE_POWER_OFF})
  /\ [][ /\ (pc = "cfg" /\ sinceSet >= SET_TIMEOUT) => ConfigTimeoutStep
         /\ ConfigTimeoutStep => sinceSet >= SET_TIMEOUT
         /\ pc = "cfg_hold" => (setPin = LOW /\ setPin' = HIGH /\ ~ConfigTimeoutStep) ]_vars

\* C29 witness: the session timed out while the skin button was still down
\* after it had stepped the class
C29_Witness ==
  state = STATE_POWER_OFF /\ pc = "loop" /\ skinPin = LOW /\ skinButton = LOW
    /\ setPin = HIGH

AfterTwo(a, b) == ConsumeF32(ConsumeF32(minutesToBurn, a), b)

\* the budget less the two UV indices, without rounding
ExactAfterTwo(a, b) == minutesToBurn - UVindexF32(a) - UVindexF32(b)

Halted == pc \in {"sleep", "off_sleep"}

C33_SensorDutyCycled ==
  /\ [](Halted => ~sensorOn)
  /\ [](sensorOn => pc \in {"setup", "halted"})
  /\ [][SampleStep => ~sensorOn']_vars

\* C33 witness: halted in a session right after a sampling cycle, sensor off
C33_Witness ==
  pc = "sleep" /\ state = STATE_RUNNING /\ "uv" \in effects /\ ~sensorOn
    /\ runningTimer = 2

\* a sampling cycle in which getBandgap() returned vcc
SampleStepWith(vcc) ==
  /\ SampleStep
  /\ \E cnt \in {0, wdtSleepCount}, uv \in UvReadings : SampleOf(cnt, vcc, uv)

\* what a sampling cycle does besides choosing the tone: one voltage reading
\* and one of the two tones; no other step of a session reads the voltage or
\* plays either tone
VoltageReadOnce ==
  /\ SampleStep => /\ "vcc" \in effects'
                   /\ ("lowbatt" \in effects') # ("beep" \in effects')
                   /\ \E vcc \in VccReadings : SampleStepWith(vcc)
  /\ (state = STATE_RUNNING /\ ~SampleStep)
       => effects' \cap {"vcc", "lowbatt", "beep"} = {}

\* C34 as stated: every sampling cycle reads the voltage once and plays one
\* tone, the low-battery tone when the reading is below 270 and the short
\* beep otherwise.
C34_LowToneBelowThreshold ==
  [][ /\ VoltageReadOnce
      /\ \A vcc \in VccReadings :
           SampleStepWith(vcc) => ("lowbatt" \in effects' <=> vcc < MIN_BATT_VOLTS) ]_vars

\* C34: every sampling cycle reads the voltage once and plays one tone, the
\* low-battery tone when the reading is 270 or less and the short beep when
\* it is above 270.
C34_LowToneAtOrBelowThreshold ==
  [][ /\ VoltageReadOnce
      /\ \A vcc \in VccReadings :
           SampleStepWith(vcc) => ("lowbatt" \in effects' <=> vcc <= MIN_BATT_VOLTS) ]_vars

\* C34 witness: asleep in a session after a sampling cycle that played the
\* low-battery tone
C34_Witness ==
  state = STATE_RUNNING /\ pc = "sleep" /\ effects = {"vcc", "lowbatt", "uv"}
    /\ runningTimer = 1

\* C35: in the earlier variant, Completed leads to PowerOff whatever the
\* start/stop button does: playAlarm returns when the alarm time is over or
\* after a press.
C35_AlarmEnds001 == (state = STATE_COMPLETED) ~> (state = STATE_POWER_OFF)

\* C36: in the earlier variant, the watchdog interrupt is off whenever the
\* processor is halted in PowerOff, only a step with the power button down
\* ends that halt, and no step taken while halted there moves wdtSleepCount.
C36_TickOffInPowerOff001 ==
  /\ [](pc = "off_sleep" => ~wdtEnabled)
  /\ [][ pc = "off_sleep" =>
           /\ wdtSleepCount' = wdtSleepCount
           /\ pc' # pc => onOffPin = LOW ]_vars

====
